---- MODULE Spec2Model ----
(***************************************************************************)
(* A model of the lastmile routing engine:                                 *)
(*   - the CVRPTW solver (backend/app/services/optimizer.py),              *)
(*   - the route validator (backend/app/services/constraint_checker.py),   *)
(*   - the WebSocket connection manager and the reroute endpoint           *)
(*     (backend/app/routers/routes.py).                                    *)
(*                                                                         *)
(* Numbers.  The code computes with floats.  Here weights and minutes are  *)
(* integers and a distance is an integer count of units of 1e-6 km, so     *)
(* that the 2-opt threshold 1e-6 is the integer Eps.  Rounding error of    *)
(* float addition is not modelled.                                         *)
(*                                                                         *)
(* Indices.  Stop indices are 0-based as in the code; the code's lists are *)
(* sequences (1-based), so the list element l[k] of the code is l[k+1].    *)
(***************************************************************************)
EXTENDS Integers, Sequences, FiniteSets, TLC

\* ---------------------------------------------------------------- bounds
\* The largest number of stops of an optimisation input.
MaxStops == 4
\* The number of WebSocket connections and of reroute requests.
MaxSinks == 3
MaxRequests == 2
\* Direct callers of the manager: the number of sinks they pass to it and
\* the number of connect and disconnect calls they make.
MaxDirectSinks == 2
MaxCalls == 4
\* The number of optimisation jobs and the largest number of stops in the
\* tables they read.
MaxJobs == 2
MaxJobStops == 2
\* The largest number of stops of the rerouted route and the largest number
\* of traffic events in one request.
MaxRouteStops == 2
MaxEvents == 2
MaxPoints == 3
MaxPlace == 2

\* ------------------------------------------------------ program constants
depot_idx == 0        \* CVRPTWSolver.__init__: depot_idx: int = 0
start_min == 480      \* CVRPTWSolver.__init__: start_min: float = 480.0
Eps == 1              \* _two_opt: 1e-6, in units of 1e-6 km
\* reroute_active: travel times and clock values are in hundredths of a
\* minute; the dispatch time 480.0 and the default delay_factor 1.5 (a
\* delay_factor is held as a percentage).
T0 == 480 * 100
default_delay_factor == 150
avg_speed_kmh == 30

VARIABLES
  \* the solver object's attributes (CVRPTWSolver.__init__)
  stops,        \* self.stops: 0..n-1 -> [id, idx, weight, earliest_min, latest_min]
  vehicles,     \* self.vehicles: sequence of [id, capacity_kg]
  dist,         \* self.dist:   (n+1) x (n+1)
  time_m,       \* self.time_m: (n+1) x (n+1)
  \* the running call
  pc,           \* position of the caller: "idle", "greedy_for", "solve_map",
                \* "two_opt_while", "two_opt_scan", "done"
  op,           \* the call in progress or last returned: "none", "greedy", "solve", "two_opt"
  \* locals of _greedy
  unassigned, routes, v,
  \* locals of solve (the list comprehension) and of _two_opt
  rk, out, route, best, improved, i, j,
  \* what the last completed call returned
  result,
  \* rows written by run_optimization: sequence of
  \* [vehicle_id, total_distance_km, route_stops: sequence of [stop_id, sequence]]
  db_routes,
  \* history: the first value solve() returned on this solver object, the
  \* orderings `best` has held during the running _two_opt call, and `best`
  \* as it was when the running pass of the while loop began (<<>> before
  \* the first pass)
  solved, first_solve, visited, pass_best,
  \* a call of validate_route: its arguments and what it returned
  vr_args,      \* <<>> before the call, then [stops_list, vehicle_capacity, start_time_min]
  vr_ret,       \* <<>> before the return, then <<is_valid, arrival_times>>
  \* the connection manager `manager` and the tasks of the event loop
  connections,  \* manager._connections: route_id -> list of sinks, on the keys set so far
  ws_state,     \* each WebSocket: "new", "open" (accepted), "closed" (peer gone)
  handler,      \* each websocket_route task: [pc, route_id]
  bc,           \* each reroute request: [pc, route_id, it, dead]
  \* history: every send_json call in order, as [b, ws, ok]; per request, the
  \* sinks registered from the start of its broadcast until now (or until
  \* its return), and the sinks that stood behind a sink whose send raised
  log, stayed, after_fail,
  \* history: the pairs <<route_id, sink>> for which disconnect has returned
  \* and connect has not registered the sink since; per request, the sinks
  \* that were in that state for its route when its broadcast started and
  \* have not been registered again
  unsubscribed, barred,
  \* the number of direct calls of connect and disconnect made so far
  calls,
  \* the optimisation jobs
  jobs,         \* each job: its position, arguments and locals
  polled,       \* the last call of GET /routes/{job_id}/status: [job_id, answer]
  responses,    \* what POST /routes/optimize answered for the job, <<>> before
  backend,      \* the Celery result backend: job -> [state, result]
  store,        \* the committed rows: [routes, route_stops], two sets of rows
  tx,           \* per job, the rows written in its open transaction
  next_route_id, \* the next value of the routes.id sequence
  \* one reroute call
  rr,           \* its position and locals
  rr_ref,       \* history: the matrix as built, and with the in-range events applied;
                \* whether every event so far had a factor >= 1, and whether one
                \* of them named the edge 0 -> 1 with a factor > 1
  \* one matrix build (the try/except of run_optimization and reroute_active)
  mx,           \* its position, its caller, the configured key, the coordinates,
                \* the calls made to the primary provider, the exception in
                \* flight, the matrices bound and the warnings logged
  \* one HTTP request to the routes router
  api           \* its position, operation, route id and response

solver_vars == <<stops, vehicles, dist, time_m>>
call_vars == <<pc, op, unassigned, routes, v, rk, out, route, best, improved, i, j, result>>
hist_vars == <<solved, first_solve, visited, pass_best>>
validate_vars == <<vr_args, vr_ret>>
hub_vars == <<connections, ws_state, handler, bc, log, stayed, after_fail, unsubscribed, barred, calls>>
job_vars == <<jobs, polled, responses, backend, store, tx, next_route_id>>
reroute_vars == <<rr, rr_ref>>
matrix_vars == <<mx>>
api_vars == <<api>>
vars == <<solver_vars, call_vars, db_routes, hist_vars, validate_vars, hub_vars, job_vars,
          reroute_vars, matrix_vars, api_vars>>

\* --------------------------------------------------------------- helpers
Abs(x) == IF x < 0 THEN -x ELSE x
Max(a, b) == IF a >= b THEN a ELSE b
Range(s) == {s[k] : k \in 1..Len(s)}
Reverse(s) == [k \in 1..Len(s) |-> s[Len(s) + 1 - k]]

\* list.remove(x): drops the first occurrence of x (x is in the list).
ListRemove(l, x) ==
  LET k == CHOOSE k \in 1..Len(l) : l[k] = x /\ \A m \in 1..(k - 1) : l[m] # x
  IN SubSeq(l, 1, k - 1) \o SubSeq(l, k + 1, Len(l))

n == Cardinality(DOMAIN stops)     \* self.n = len(stops)

\* ------------------------------------------------------- solver: helpers

\* _route_dist: depot -> first, consecutive pairs, last -> depot; 0 when empty.
RECURSIVE RouteDistLoop(_, _, _)
RouteDistLoop(stop_indices, k, d) ==
  IF k > Len(stop_indices) - 1 THEN d
  ELSE RouteDistLoop(stop_indices, k + 1,
         d + dist[stops[stop_indices[k]].idx][stops[stop_indices[k + 1]].idx])

route_dist(stop_indices) ==
  IF stop_indices = <<>> THEN 0
  ELSE LET d0 == dist[depot_idx][stops[stop_indices[1]].idx]
           d1 == RouteDistLoop(stop_indices, 1, d0)
       IN d1 + dist[stops[stop_indices[Len(stop_indices)]].idx][depot_idx]

RECURSIVE SumWeights(_, _)
SumWeights(stop_indices, k) ==
  IF k > Len(stop_indices) THEN 0
  ELSE stops[stop_indices[k]].weight + SumWeights(stop_indices, k + 1)

\* _feasible, the walk: t = max(t + travel, earliest); False when t > latest.
RECURSIVE FeasibleWalk(_, _, _, _)
FeasibleWalk(stop_indices, k, t, pos) ==
  IF k > Len(stop_indices) THEN TRUE
  ELSE LET s == stops[stop_indices[k]]
           t2 == Max(t + time_m[pos][s.idx], s.earliest_min)
       IN IF t2 > s.latest_min THEN FALSE
          ELSE FeasibleWalk(stop_indices, k + 1, t2, s.idx)

FeasibleAlways(stop_indices, vehicle) == TRUE

feasible(stop_indices, vehicle) ==
  IF SumWeights(stop_indices, 1) > vehicle.capacity_kg THEN FALSE
  ELSE FeasibleWalk(stop_indices, 1, start_min, depot_idx)

\* ------------------------------------------------------- solver: _greedy

OverCapacityBeforeLoading(current_load, weight, capacity_kg) == current_load > capacity_kg

OverCapacityWhenFull(current_load, weight, capacity_kg) == current_load + weight >= capacity_kg

\* line 108: current_load + s["weight"] > vehicle["capacity_kg"]
OverCapacity(current_load, weight, capacity_kg) == current_load + weight > capacity_kg

\* line 113: current_time + travel > s["latest_min"]
TooLate(current_time, travel, latest_min) == current_time + travel > latest_min

\* lines 102-118: the scan of `unassigned` for the nearest feasible stop;
\* d < best_dist keeps the first of equally near stops.  best_dist starts at
\* infinity: the first feasible stop is always taken.
RECURSIVE ScanUnassignedKeepLast(_, _, _, _, _, _, _)
ScanUnassignedKeepLast(un, k, vehicle, current_load, current_time, current_pos, acc) ==
  IF k > Len(un) THEN acc
  ELSE LET s == stops[un[k]]
           travel == time_m[current_pos][s.idx]
           d == dist[current_pos][s.idx]
           nxt == IF OverCapacity(current_load, s.weight, vehicle.capacity_kg) THEN acc
                  ELSE IF TooLate(current_time, travel, s.latest_min) THEN acc
                  ELSE IF (~acc.found) \/ d <= acc.best_dist
                       THEN [found |-> TRUE, best_i |-> un[k], best_dist |-> d]
                       ELSE acc
       IN ScanUnassignedKeepLast(un, k + 1, vehicle, current_load, current_time,
                                 current_pos, nxt)

RECURSIVE ScanUnassigned(_, _, _, _, _, _, _)
ScanUnassigned(un, k, vehicle, current_load, current_time, current_pos, acc) ==
  IF k > Len(un) THEN acc
  ELSE LET s == stops[un[k]]
           travel == time_m[current_pos][s.idx]
           d == dist[current_pos][s.idx]
           nxt == IF OverCapacity(current_load, s.weight, vehicle.capacity_kg) THEN acc
                  ELSE IF TooLate(current_time, travel, s.latest_min) THEN acc
                  ELSE IF (~acc.found) \/ d < acc.best_dist
                       THEN [found |-> TRUE, best_i |-> un[k], best_dist |-> d]
                       ELSE acc
       IN ScanUnassigned(un, k + 1, vehicle, current_load, current_time, current_pos, nxt)

RemoveHead(un, best_i) == Tail(un)

\* line 129: unassigned.remove(best_i)
RemoveAssigned(un, best_i) == ListRemove(un, best_i)

\* lines 101-129: the while loop that fills one vehicle's route.
RECURSIVE GreedyWhile(_, _, _, _, _, _)
GreedyWhile(vehicle, un, route_stops, current_load, current_time, current_pos) ==
  IF un = <<>> THEN [route_stops |-> route_stops, unassigned |-> un]
  ELSE LET pick == ScanUnassigned(un, 1, vehicle, current_load, current_time, current_pos,
                                  [found |-> FALSE, best_i |-> 0, best_dist |-> 0])
       IN IF ~pick.found THEN [route_stops |-> route_stops, unassigned |-> un]
          ELSE LET s == stops[pick.best_i]
                   travel == time_m[current_pos][s.idx]
               IN GreedyWhile(vehicle,
                              RemoveAssigned(un, pick.best_i),
                              Append(route_stops, pick.best_i),
                              current_load + s.weight,
                              Max(current_time + travel, s.earliest_min),
                              s.idx)

\* the routes of the last call, kept and not cleared
StaleRoutes == result

\* line 90: routes = []
FreshRoutes == <<>>

\* line 89: unassigned = list(range(self.n))
FreshUnassigned == [k \in 1..n |-> k - 1]

\* ------------------------------------------------------ solver: _two_opt

\* line 157: best[:i+1] + best[i+1:j+1][::-1] + best[j+1:]
Candidate(b, ii, jj) ==
  SubSeq(b, 1, ii + 1) \o Reverse(SubSeq(b, ii + 2, jj + 1)) \o SubSeq(b, jj + 2, Len(b))

ImprovesOrTies(cand_dist, best_dist) == cand_dist <= best_dist

ImprovesReversed(cand_dist, best_dist) == cand_dist > best_dist + Eps

\* line 158: self._route_dist(candidate) < self._route_dist(best) - 1e-6
Improves(cand_dist, best_dist) == cand_dist < best_dist - Eps

\* line 163 without the refreshed distance
TwoOptResultStaleDist(r, b) == [r EXCEPT !.stops = b]

\* line 163: {**route, "stops": best, "dist": self._route_dist(best)}
TwoOptResult(r, b) == [r EXCEPT !.stops = b, !.dist = route_dist(b)]

\* the pair after (ii, jj) in the scan order of lines 155-156, for a list of
\* length len; <<>> when the scan is over.
NextPair(ii, jj, len) ==
  IF jj + 1 < len THEN <<ii, jj + 1>>
  ELSE IF ii + 3 < len THEN <<ii + 1, ii + 3>>
  ELSE <<>>

\* ------------------------------------------- solver: the calls as values
\* solve() does no I/O and does not suspend; a caller that only needs its
\* value (the optimisation job) sees the value computed here, loop by loop
\* as in the code.

\* _greedy from vehicle number vk on (lines 92-138).
RECURSIVE GreedyFor(_, _, _)
GreedyFor(vk, un, acc) ==
  IF vk > Len(vehicles) \/ un = <<>> THEN acc
  ELSE LET vehicle == vehicles[vk]
           built == GreedyWhile(vehicle, un, <<>>, 0, start_min, depot_idx)
       IN GreedyFor(vk + 1, built.unassigned,
                    IF built.route_stops # <<>>
                    THEN Append(acc, [vehicle |-> vehicle,
                                      stops |-> built.route_stops,
                                      dist |-> route_dist(built.route_stops)])
                    ELSE acc)

greedy == GreedyFor(1, FreshUnassigned, FreshRoutes)

\* One pass of the double loop of _two_opt from the pair (ii, jj) on
\* (lines 155-161).
RECURSIVE TwoOptPass(_, _, _, _, _)
TwoOptPass(vehicle, b, ii, jj, imp) ==
  LET candidate == Candidate(b, ii, jj)
      accept == /\ Improves(route_dist(candidate), route_dist(b))
                /\ feasible(candidate, vehicle)
      b2 == IF accept THEN candidate ELSE b
      nxt == NextPair(ii, jj, Len(b))
  IN IF nxt = <<>> THEN [best |-> b2, improved |-> (imp \/ accept)]
     ELSE TwoOptPass(vehicle, b2, nxt[1], nxt[2], imp \/ accept)

\* `while improved` of _two_opt (lines 153-161).
RECURSIVE TwoOptLoop(_, _)
TwoOptLoop(vehicle, b) ==
  IF Len(b) < 3 THEN b
  ELSE LET p == TwoOptPass(vehicle, b, 0, 2, FALSE)
       IN IF p.improved THEN TwoOptLoop(vehicle, p.best) ELSE p.best

two_opt(r) == TwoOptResult(r, TwoOptLoop(r.vehicle, r.stops))

\* solve(): lines 70-72.
solve == [k \in 1..Len(greedy) |-> two_opt(greedy[k])]

\* --------------------------------------------------------- solver: score
RECURSIVE SumDist(_, _)
SumDist(rs, k) == IF k > Len(rs) THEN 0 ELSE rs[k].dist + SumDist(rs, k + 1)
RECURSIVE SumStops(_, _)
SumStops(rs, k) == IF k > Len(rs) THEN 0 ELSE Len(rs[k].stops) + SumStops(rs, k + 1)

\* score(); avg_stops_per_route (a rounded quotient) is left out.
score(rs) ==
  [total_distance_km |-> SumDist(rs, 1),
   num_routes |-> Len(rs),
   unassigned |-> n - SumStops(rs, 1)]

\* ------------------------------------------------------- solver: inputs
\* What one stop carries besides its matrix index: the wide window of the
\* tests' STOPS_4, a heavy stop with a window that closes early, and a stop
\* whose window opens late (the driver waits).
Profiles ==
  { [weight |-> 1, earliest_min |-> 480, latest_min |-> 840],
    [weight |-> 2, earliest_min |-> 480, latest_min |-> 483],
    [weight |-> 1, earliest_min |-> 486, latest_min |-> 840] }

\* One roomy vehicle, two smaller ones, one too small for the heavy stop.
Fleets ==
  { << [id |-> 1, capacity_kg |-> 5] >>,
    << [id |-> 1, capacity_kg |-> 3], [id |-> 2, capacity_kg |-> 2] >>,
    << [id |-> 1, capacity_kg |-> 1] >> }

\* Matrix shapes.  "linear" is the tests' DIST_LINEAR (used there for both
\* matrices); "zigzag" puts the nodes on a line at 0, 1, -2, 4, -8, ... at
\* 2 minutes per unit, so that nearest-neighbour is not optimal; "directed"
\* is asymmetric and violates the triangle inequality, with travel times
\* unrelated to distances.
MatrixKinds == {"linear", "zigzag", "directed"}

ZigPos(a) == IF a = 0 THEN 0 ELSE (IF a % 2 = 1 THEN 1 ELSE -1) * 2^(a - 1)

DistEntry(kind, a, b) ==
  IF a = b THEN 0
  ELSE CASE kind = "linear" -> Abs(a - b)
         [] kind = "zigzag" -> Abs(ZigPos(a) - ZigPos(b))
         [] OTHER -> ((4 * a * a + 2 * b + a * b) % 5) + 1

TimeEntry(kind, a, b) ==
  IF a = b THEN 0
  ELSE CASE kind = "linear" -> Abs(a - b)
         [] kind = "zigzag" -> 2 * Abs(ZigPos(a) - ZigPos(b))
         [] OTHER -> ((a + 2 * b) % 3) + 1

\* run_optimization lines 225-234: stop i has matrix index i + 1.
StopRecord(k, profile) ==
  [id |-> 101 + k, idx |-> k + 1, weight |-> profile.weight,
   earliest_min |-> profile.earliest_min, latest_min |-> profile.latest_min]

\* every ordering of all the stops (the hand-built routes of the tests)
Orderings ==
  {o \in [1..n -> 0..(n - 1)] : \A a, b \in 1..n : a # b => o[a] # o[b]}

\* ---------------------------------------------------------- solver: Init
\* A solver object built from an input of the given sizes, kinds and fleets.
SolverBuilt(counts, kinds, fleets) ==
  /\ \E cnt \in counts :
       \E prof \in [0..(cnt - 1) -> Profiles], kind \in kinds :
         /\ stops = [k \in 0..(cnt - 1) |-> StopRecord(k, prof[k])]
         /\ dist = [a \in 0..cnt |-> [b \in 0..cnt |-> DistEntry(kind, a, b)]]
         /\ time_m = [a \in 0..cnt |-> [b \in 0..cnt |-> TimeEntry(kind, a, b)]]
  /\ vehicles \in fleets

\* No solver call has been made and nothing has been persisted.
SolverIdle ==
  /\ pc = "idle" /\ op = "none"
  /\ unassigned = <<>> /\ routes = <<>> /\ v = 1
  /\ rk = 1 /\ out = <<>>
  /\ route = [vehicle |-> vehicles[1], stops |-> <<>>, dist |-> 0]
  /\ best = <<>> /\ improved = FALSE /\ i = 0 /\ j = 0
  /\ result = <<>>
  /\ db_routes = <<>>
  /\ solved = FALSE /\ first_solve = <<>> /\ visited = {} /\ pass_best = <<>>

\* validate_route has not been called.
ValidateIdle == vr_args = <<>> /\ vr_ret = <<>>

\* The sockets and requests of the hub, and the sentinel route_id of a task
\* that has not started.
Sinks == 1..MaxSinks
Requests == 1..MaxRequests
RouteIds == {"7", "8"}
NoRoute == ""

\* ConnectionManager.__init__: no route has a list yet; no socket has
\* connected and no reroute request has arrived.
HubIdle ==
  /\ connections = <<>>
  /\ ws_state = [s \in Sinks |-> "new"]
  /\ handler = [s \in Sinks |-> [pc |-> "none", route_id |-> NoRoute]]
  /\ bc = [b \in Requests |-> [pc |-> "idle", route_id |-> NoRoute, it |-> 0, dead |-> <<>>]]
  /\ log = <<>>
  /\ stayed = [b \in Requests |-> {}]
  /\ after_fail = [b \in Requests |-> {}]
  /\ unsubscribed = {}
  /\ barred = [b \in Requests |-> {}]
  /\ calls = 0

\* The jobs, and the sentinel of a job field not yet set.
Jobs == 1..MaxJobs
Unset == "unset"
NoRows == [routes |-> {}, route_stops |-> {}]

\* No job has been submitted; the route tables are empty.
NoResult == [kind |-> "none"]
NotPolled == [job_id |-> 0, answer |-> [status |-> "never polled"]]
NoJobs ==
  /\ jobs = [jb \in Jobs |-> [pc |-> "none", depot_id |-> 0, date_str |-> Unset,
                               optimized_routes |-> <<>>, k |-> 1,
                               db_route_ids |-> <<>>, pending |-> {},
                               exc |-> NoResult]]
  /\ polled = NotPolled
  /\ responses = [jb \in Jobs |-> <<>>]
  /\ backend = [jb \in Jobs |-> [state |-> "PENDING", result |-> NoResult]]
  /\ tx = [jb \in Jobs |-> NoRows]
  /\ next_route_id = 1

JobsIdle == NoJobs /\ store = NoRows

\* No reroute call has been made.
NoMatrix == <<>>
RerouteIdle ==
  /\ rr = [pc |-> "idle", route_id |-> 0, stops |-> <<>>, time_matrix |-> NoMatrix,
           n_events |-> 0, result |-> NoResult, exc |-> NoResult]
  /\ rr_ref = [base |-> NoMatrix, delayed |-> NoMatrix, slow_only |-> TRUE, hit01 |-> FALSE]

\* No matrix build has started.
NoException == [kind |-> "none"]
MatrixIdle ==
  mx = [pc |-> "idle", caller |-> "none", ors_api_key |-> "", coords |-> <<>>,
        primary_calls |-> 0, exc |-> NoException, dist_matrix |-> NoMatrix,
        time_matrix |-> NoMatrix, warnings |-> 0]

\* No request has reached the routes router.
ApiIdle == api = [pc |-> "idle", op |-> "none", route_id |-> 0, response |-> NoResult]

SolverInit ==
  /\ SolverBuilt(1..MaxStops, MatrixKinds, Fleets)
  /\ SolverIdle
  /\ ValidateIdle
  /\ HubIdle
  /\ JobsIdle
  /\ RerouteIdle
  /\ MatrixIdle
  /\ ApiIdle

\* ------------------------------------------------------- solver: actions

\* The locals of a call are gone when it returns.
LocalsGone ==
  /\ unassigned' = <<>> /\ routes' = <<>> /\ v' = 1
  /\ rk' = 1 /\ out' = <<>>
  /\ route' = [vehicle |-> vehicles[1], stops |-> <<>>, dist |-> 0]
  /\ best' = <<>> /\ improved' = FALSE /\ i' = 0 /\ j' = 0
  /\ visited' = {} /\ pass_best' = <<>>

\* A caller starts _greedy() (op "greedy") or solve() (op "solve"), whose
\* first statement is routes = self._greedy().
EnterGreedy(o) ==
  /\ pc = "idle"
  /\ op' = o
  /\ unassigned' = FreshUnassigned
  /\ routes' = FreshRoutes
  /\ v' = 1
  /\ pc' = "greedy_for"
  /\ result' = <<>>
  /\ UNCHANGED <<rk, out, route, best, improved, i, j>>
  /\ UNCHANGED <<solver_vars, job_vars, reroute_vars, matrix_vars, api_vars, validate_vars, hub_vars, db_routes, hist_vars>>

CallGreedy == EnterGreedy("greedy")

CallSolve == EnterGreedy("solve")

\* One pass of `for vehicle in self.vehicles` (lines 92-136).
GreedyVehicle ==
  /\ pc = "greedy_for"
  /\ v <= Len(vehicles)
  /\ unassigned # <<>>
  /\ LET vehicle == vehicles[v]
         built == GreedyWhile(vehicle, unassigned, <<>>, 0, start_min, depot_idx)
     IN /\ unassigned' = built.unassigned
        /\ routes' = IF built.route_stops # <<>>
                     THEN Append(routes, [vehicle |-> vehicle,
                                          stops |-> built.route_stops,
                                          dist |-> route_dist(built.route_stops)])
                     ELSE routes
  /\ v' = v + 1
  /\ UNCHANGED <<pc, op, rk, out, route, best, improved, i, j, result>>
  /\ UNCHANGED <<solver_vars, job_vars, reroute_vars, matrix_vars, api_vars, validate_vars, hub_vars, db_routes, hist_vars>>

\* The loop is over (no vehicle left, or the break of line 94): return routes.
\* In solve() the list comprehension of line 71 starts.
GreedyReturn ==
  /\ pc = "greedy_for"
  /\ (v > Len(vehicles) \/ unassigned = <<>>)
  /\ IF op = "greedy"
     THEN /\ result' = routes
          /\ pc' = "idle"
          /\ LocalsGone
     ELSE /\ pc' = "solve_map"
          /\ rk' = 1
          /\ out' = <<>>
          /\ UNCHANGED <<result, unassigned, routes, v, route, best, improved, i, j, visited, pass_best>>
  /\ UNCHANGED <<op, solver_vars, job_vars, reroute_vars, matrix_vars, api_vars, validate_vars, hub_vars, db_routes, solved, first_solve>>

\* _two_opt line 150-151: best = route["stops"][:]; improved = True
EnterTwoOpt(r) ==
  /\ route' = r
  /\ best' = r.stops
  /\ improved' = TRUE
  /\ i' = 0 /\ j' = 0
  /\ visited' = {r.stops} /\ pass_best' = <<>>
  /\ pc' = "two_opt_while"

\* solve() line 71: [self._two_opt(r) for r in routes], then return.
SolveMap ==
  /\ pc = "solve_map"
  /\ IF rk <= Len(routes)
     THEN /\ EnterTwoOpt(routes[rk])
          /\ UNCHANGED <<result, solved, first_solve, unassigned, routes, v, rk, out>>
     ELSE /\ result' = out
          /\ pc' = "idle"
          /\ solved' = TRUE
          /\ first_solve' = IF solved THEN first_solve ELSE out
          /\ LocalsGone
  /\ UNCHANGED <<op, solver_vars, job_vars, reroute_vars, matrix_vars, api_vars, validate_vars, hub_vars, db_routes>>

\* A test calls _two_opt on a hand-built route of a new solver object: any
\* ordering of the stops, the first vehicle, dist computed with _route_dist
\* (test_two_opt_improves_known_bad_route).
CallTwoOpt ==
  /\ pc = "idle"
  /\ op = "none"
  /\ \E o \in Orderings :
       EnterTwoOpt([vehicle |-> vehicles[1], stops |-> o, dist |-> route_dist(o)])
  /\ op' = "two_opt"
  /\ result' = <<>>
  /\ UNCHANGED <<unassigned, routes, v, rk, out>>
  /\ UNCHANGED <<solver_vars, job_vars, reroute_vars, matrix_vars, api_vars, validate_vars, hub_vars, db_routes, solved, first_solve>>

\* `while improved:` (line 153).  Entering the body clears the flag and
\* starts the scan of lines 155-156, which is empty for fewer than 3 stops;
\* leaving the loop returns line 163.
TwoOptWhile ==
  /\ pc = "two_opt_while"
  /\ IF improved
     THEN /\ improved' = FALSE
          /\ pass_best' = best
          /\ IF Len(best) >= 3
             THEN i' = 0 /\ j' = 2 /\ pc' = "two_opt_scan"
             ELSE UNCHANGED <<i, j, pc>>
          /\ UNCHANGED <<rk, out, result, unassigned, routes, v, route, best, visited>>
     ELSE /\ IF op = "solve"
             THEN /\ out' = Append(out, TwoOptResult(route, best))
                  /\ rk' = rk + 1
                  /\ pc' = "solve_map"
                  /\ UNCHANGED <<result, improved, i, j, unassigned, routes, v, route, best,
                                 visited, pass_best>>
             ELSE /\ result' = <<TwoOptResult(route, best)>>
                  /\ pc' = "idle"
                  /\ LocalsGone
  /\ UNCHANGED <<op, solver_vars, job_vars, reroute_vars, matrix_vars, api_vars, validate_vars, hub_vars, db_routes, solved, first_solve>>

\* One candidate of the double loop (lines 157-161).
TwoOptScan ==
  /\ pc = "two_opt_scan"
  /\ LET candidate == Candidate(best, i, j)
         accept == /\ Improves(route_dist(candidate), route_dist(best))
                   /\ feasible(candidate, route.vehicle)
         nxt == NextPair(i, j, Len(best))
     IN /\ best' = IF accept THEN candidate ELSE best
        /\ improved' = (improved \/ accept)
        /\ visited' = IF accept THEN visited \cup {candidate} ELSE visited
        /\ IF nxt = <<>>
           THEN pc' = "two_opt_while" /\ UNCHANGED <<i, j>>
           ELSE i' = nxt[1] /\ j' = nxt[2] /\ UNCHANGED pc
  /\ UNCHANGED <<op, unassigned, routes, v, rk, out, route, result>>
  /\ UNCHANGED <<solver_vars, job_vars, reroute_vars, matrix_vars, api_vars, validate_vars, hub_vars, db_routes, solved, first_solve, pass_best>>

\* run_optimization lines 257-275: one Route row per optimised route, with
\* its RouteStop rows in sequence order; the job ends with the commit.
RECURSIVE RouteStopRows(_, _)
RouteStopRows(stop_indices, seq) ==
  IF seq >= Len(stop_indices) THEN <<>>
  ELSE <<[stop_id |-> stops[stop_indices[seq + 1]].id, sequence |-> seq]>>
       \o RouteStopRows(stop_indices, seq + 1)

RouteRow(r) ==
  [vehicle_id |-> r.vehicle.id,
   total_distance_km |-> r.dist,
   route_stops |-> RouteStopRows(r.stops, 0)]

Persist ==
  /\ pc = "idle"
  /\ op = "solve"
  /\ db_routes' = [k \in 1..Len(result) |-> RouteRow(result[k])]
  /\ pc' = "done"
  /\ UNCHANGED <<op, unassigned, routes, v, rk, out, route, best, improved, i, j, result>>
  /\ UNCHANGED <<solver_vars, job_vars, reroute_vars, matrix_vars, api_vars, validate_vars, hub_vars, hist_vars>>

SolverNext ==
  \/ CallGreedy
  \/ CallSolve
  \/ CallTwoOpt
  \/ GreedyVehicle
  \/ GreedyReturn
  \/ SolveMap
  \/ TwoOptWhile
  \/ TwoOptScan
  \/ Persist

SolverSpec == SolverInit /\ [][SolverNext]_vars

\* ===================================================== the route validator
\* constraint_checker.py.  A stop of stops_list is a dict with the keys idx,
\* weight, earliest_min and latest_min; a return value is <<is_valid,
\* arrival_times>>.

RECURSIVE SumList(_, _)
SumList(weights, k) == IF k > Len(weights) THEN 0 ELSE weights[k] + SumList(weights, k + 1)

check_capacity_below(weights, vehicle_capacity) == SumList(weights, 1) < vehicle_capacity

\* check_capacity(weights, vehicle_capacity)
check_capacity(weights, vehicle_capacity) == SumList(weights, 1) <= vehicle_capacity

\* a checker that also misses a stop reached before its window opens
MissedOutsideWindow(arrival, stop) ==
  arrival > stop.latest_min \/ arrival < stop.earliest_min

\* if arrival > stop["latest_min"]
Missed(arrival, stop) == arrival > stop.latest_min

\* The for loop of validate_route from the k-th stop of the list on.
RECURSIVE ValidateLoop(_, _, _, _, _, _)
ValidateLoop(stops_list, k, time_matrix, current_time, current_pos, arrival_times) ==
  IF k > Len(stops_list) THEN <<TRUE, arrival_times>>
  ELSE LET stop == stops_list[k]
           travel == time_matrix[current_pos][stop.idx]
           arrival == current_time + travel
       IN IF Missed(arrival, stop) THEN <<FALSE, <<>>>>
          ELSE ValidateLoop(stops_list, k + 1, time_matrix,
                            Max(arrival, stop.earliest_min), stop.idx,
                            Append(arrival_times, arrival))

\* validate_route; dist_matrix is a parameter the body never reads.
validate_route(stops_list, vehicle_capacity, dist_matrix, time_matrix, depot, start_time_min) ==
  IF ~check_capacity([k \in 1..Len(stops_list) |-> stops_list[k].weight], vehicle_capacity)
  THEN <<FALSE, <<>>>>
  ELSE ValidateLoop(stops_list, 1, time_matrix, start_time_min, depot, <<>>)

\* Inputs of a call: the stops of the input in any order, none or some of
\* them left out; the capacity of a vehicle of the fleet; a dispatch time.
StopLists ==
  {[k \in 1..Len(o) |-> stops[o[k]]] :
     o \in {q \in UNION {[1..m -> DOMAIN stops] : m \in 0..n} :
              \A a, b \in DOMAIN q : a # b => q[a] # q[b]}}
DispatchTimes == {start_min, start_min + 4}

ValidateInit ==
  /\ SolverBuilt(1..MaxStops, MatrixKinds, Fleets)
  /\ SolverIdle
  /\ ValidateIdle
  /\ HubIdle
  /\ JobsIdle
  /\ RerouteIdle
  /\ MatrixIdle
  /\ ApiIdle

\* One call of validate_route, from the call to the return.
CallValidateRoute ==
  /\ vr_args = <<>>
  /\ \E sl \in StopLists, vk \in 1..Len(vehicles), t0 \in DispatchTimes :
       /\ vr_args' = [stops_list |-> sl, vehicle_capacity |-> vehicles[vk].capacity_kg,
                      start_time_min |-> t0]
       /\ vr_ret' = validate_route(sl, vehicles[vk].capacity_kg, dist, time_m, depot_idx, t0)
  /\ UNCHANGED <<solver_vars, job_vars, reroute_vars, matrix_vars, api_vars, call_vars, db_routes, hist_vars, hub_vars>>

ValidateNext == CallValidateRoute

ValidateSpec == ValidateInit /\ [][ValidateNext]_vars

\* The checker called on the inputs of a solver whose stops may also have a
\* window that closes before it opens.
WindowProfiles == Profiles \cup {[weight |-> 1, earliest_min |-> 486, latest_min |-> 483]}

AgreeInit ==
  /\ \E cnt \in 1..MaxStops :
       \E prof \in [0..(cnt - 1) -> WindowProfiles] :
         /\ stops = [k \in 0..(cnt - 1) |-> StopRecord(k, prof[k])]
         /\ dist = [a \in 0..cnt |-> [b \in 0..cnt |-> DistEntry("linear", a, b)]]
         /\ time_m = [a \in 0..cnt |-> [b \in 0..cnt |-> TimeEntry("linear", a, b)]]
  /\ vehicles \in Fleets
  /\ SolverIdle
  /\ ValidateIdle
  /\ HubIdle
  /\ JobsIdle
  /\ RerouteIdle
  /\ MatrixIdle
  /\ ApiIdle

AgreeSpec == AgreeInit /\ [][ValidateNext]_vars

\* ============================================ the hub and the reroute endpoint
\* routers/routes.py.  The event loop runs one task at a time; a task gives
\* up the loop only at an await, so an action below is the code a task runs
\* between two awaits.

\* self._connections.get(route_id, [])
Listeners(route_id) ==
  IF route_id \in DOMAIN connections THEN connections[route_id] ELSE <<>>

\* self._connections.setdefault(route_id, []).append(ws)
Register(conns, route_id, ws) ==
  [r \in DOMAIN conns \cup {route_id} |->
     IF r = route_id
     THEN Append(IF r \in DOMAIN conns THEN conns[r] ELSE <<>>, ws)
     ELSE conns[r]]

\* ConnectionManager.disconnect: a list has no discard; remove() drops the
\* first occurrence and the ValueError of a missing element is swallowed.
disconnect(conns, route_id, ws) ==
  IF route_id \in DOMAIN conns
  THEN IF ws \in Range(conns[route_id])
       THEN [conns EXCEPT ![route_id] = ListRemove(@, ws)]
       ELSE conns
  ELSE conns

\* for ws in dead: self.disconnect(route_id, ws)
RECURSIVE PruneDead(_, _, _, _)
PruneDead(conns, route_id, dead, k) ==
  IF k > Len(dead) THEN conns
  ELSE PruneDead(disconnect(conns, route_id, dead[k]), route_id, dead, k + 1)

\* History: after a removal from the list of route_id that leaves conns,
\* the sinks still registered throughout the broadcasts under way there.
Unregistered(route_id, conns) ==
  [b \in Requests |->
     IF bc[b].pc = "sending" /\ bc[b].route_id = route_id
     THEN stayed[b] \cap (IF route_id \in DOMAIN conns THEN Range(conns[route_id]) ELSE {})
     ELSE stayed[b]]

\* History: disconnect(route_id, ws) has returned for the sinks in `gone`.
Unsubscribe(route_id, gone) == unsubscribed \cup {<<route_id, ws>> : ws \in gone}

\* History: the broadcast of request b starts now.
BarredAtStart(b) ==
  [barred EXCEPT ![b] = {ws \in Sinks : <<bc[b].route_id, ws>> \in unsubscribed}]

HubInit ==
  /\ SolverBuilt({1}, {"linear"}, {<<[id |-> 1, capacity_kg |-> 5]>>})
  /\ stops[0] = StopRecord(0, [weight |-> 1, earliest_min |-> 480, latest_min |-> 840])
  /\ SolverIdle
  /\ ValidateIdle
  /\ HubIdle
  /\ JobsIdle
  /\ RerouteIdle
  /\ MatrixIdle
  /\ ApiIdle

\* websocket_route up to its first receive_text: manager.connect accepts the
\* socket and appends it to the list of the route.  Sockets are numbered in
\* the order in which they connect, requests in the order in which they
\* arrive.
Connect(s, r) ==
  /\ ws_state[s] = "new"
  /\ \A q \in Sinks : q < s => ws_state[q] # "new"
  /\ handler[s].pc = "none"
  /\ ws_state' = [ws_state EXCEPT ![s] = "open"]
  /\ connections' = Register(connections, r, s)
  /\ handler' = [handler EXCEPT ![s] = [pc |-> "receiving", route_id |-> r]]
  /\ UNCHANGED <<bc, log, stayed, after_fail, unsubscribed, barred, calls>>
  /\ UNCHANGED <<solver_vars, job_vars, reroute_vars, matrix_vars, api_vars, call_vars, db_routes, hist_vars, validate_vars>>

\* The peer of an open socket goes away.
ClientClose(s) ==
  /\ ws_state[s] = "open"
  /\ ws_state' = [ws_state EXCEPT ![s] = "closed"]
  /\ UNCHANGED <<connections, handler, bc, log, stayed, after_fail, unsubscribed, barred, calls>>
  /\ UNCHANGED <<solver_vars, job_vars, reroute_vars, matrix_vars, api_vars, call_vars, db_routes, hist_vars, validate_vars>>

\* websocket_route: receive_text raises WebSocketDisconnect and the handler
\* calls manager.disconnect(route_id, websocket).
HandlerDisconnect(s) ==
  /\ handler[s].pc = "receiving"
  /\ ws_state[s] = "closed"
  /\ connections' = disconnect(connections, handler[s].route_id, s)
  /\ handler' = [handler EXCEPT ![s].pc = "ended"]
  /\ stayed' = Unregistered(handler[s].route_id, connections')
  /\ unsubscribed' = Unsubscribe(handler[s].route_id, {s})
  /\ UNCHANGED <<ws_state, bc, log, after_fail, barred, calls>>
  /\ UNCHANGED <<solver_vars, job_vars, reroute_vars, matrix_vars, api_vars, call_vars, db_routes, hist_vars, validate_vars>>

\* POST /{route_id}/reroute arrives; the handler awaits reroute_active.
RerouteRequest(b, r) ==
  /\ bc[b].pc = "idle"
  /\ \A q \in Requests : q < b => bc[q].pc # "idle"
  /\ bc' = [bc EXCEPT ![b] = [pc |-> "rerouting", route_id |-> r, it |-> 0, dead |-> <<>>]]
  /\ UNCHANGED <<connections, ws_state, handler, log, stayed, after_fail, unsubscribed, barred, calls>>
  /\ UNCHANGED <<solver_vars, job_vars, reroute_vars, matrix_vars, api_vars, call_vars, db_routes, hist_vars, validate_vars>>

\* broadcast, one turn of its first for loop: the list iterator, which
\* holds the live list of the route and an index, yields the element at the
\* index; send_json on an open socket delivers the payload, on a closed one
\* it raises and the socket is appended to dead.  The task then waits at
\* the await.  The first turn runs with the return of reroute_active.
BroadcastSend(b) ==
  LET r == bc[b].route_id
      l == Listeners(r)
      ws == l[bc[b].it + 1]
      ok == ws_state[ws] = "open"
  IN /\ bc[b].pc \in {"rerouting", "sending"}
     /\ bc[b].it < Len(l)
     /\ bc' = [bc EXCEPT ![b].pc = "sending",
                         ![b].it = @ + 1,
                         ![b].dead = IF ok THEN @ ELSE Append(@, ws)]
     /\ log' = Append(log, [b |-> b, ws |-> ws, ok |-> ok])
     /\ stayed' = IF bc[b].pc = "rerouting" THEN [stayed EXCEPT ![b] = Range(l)] ELSE stayed
     /\ after_fail' = IF ok THEN after_fail
                      ELSE [after_fail EXCEPT ![b] = @ \cup {l[k] : k \in (bc[b].it + 2)..Len(l)}]
     /\ barred' = IF bc[b].pc = "rerouting" THEN BarredAtStart(b) ELSE barred
     /\ UNCHANGED <<connections, ws_state, handler, unsubscribed, calls>>
     /\ UNCHANGED <<solver_vars, job_vars, reroute_vars, matrix_vars, api_vars, call_vars, db_routes, hist_vars, validate_vars>>

\* broadcast, the end: the iterator finds its index at or past the end of
\* the list, the second for loop disconnects the dead sockets, broadcast
\* returns and reroute returns `updated`.
BroadcastReturn(b) ==
  LET r == bc[b].route_id
  IN /\ bc[b].pc \in {"rerouting", "sending"}
     /\ bc[b].it >= Len(Listeners(r))
     /\ connections' = PruneDead(connections, r, bc[b].dead, 1)
     /\ bc' = [bc EXCEPT ![b].pc = "done"]
     /\ stayed' = [Unregistered(r, connections') EXCEPT
                     ![b] = IF bc[b].pc = "rerouting" THEN {} ELSE stayed[b]]
     /\ unsubscribed' = Unsubscribe(r, Range(bc[b].dead))
     /\ barred' = IF bc[b].pc = "rerouting" THEN BarredAtStart(b) ELSE barred
     /\ UNCHANGED <<ws_state, handler, log, after_fail, calls>>
     /\ UNCHANGED <<solver_vars, job_vars, reroute_vars, matrix_vars, api_vars, call_vars, db_routes, hist_vars, validate_vars>>

HubNext ==
  \/ \E s \in Sinks, r \in RouteIds : Connect(s, r)
  \/ \E s \in Sinks : ClientClose(s)
  \/ \E s \in Sinks : HandlerDisconnect(s)
  \/ \E b \in Requests, r \in RouteIds : RerouteRequest(b, r)
  \/ \E b \in Requests : BroadcastSend(b)
  \/ \E b \in Requests : BroadcastReturn(b)

HubSpec == HubInit /\ [][HubNext]_vars

\* ------------------------------------------- the manager called directly
\* ConnectionManager is a module-level object with public methods: here any
\* caller calls connect and disconnect with any sink and route, in any
\* order, next to the broadcasts.

\* What ws.accept() does on a socket in state st: a new socket is accepted;
\* on a closed one it raises; on one accepted before, the outcome is the
\* sink's own (Starlette's WebSocket raises, a sink with an idempotent
\* accept returns).
AcceptOutcomes(st) ==
  CASE st = "new" -> {"accepted"}
    [] st = "open" -> {"accepted", "raised"}
    [] OTHER -> {"raised"}

\* manager.connect(r, s): await ws.accept(), then the append.  An accept
\* that raises leaves connect before the append.
ManagerConnect(s, r) ==
  /\ \A q \in Sinks : q < s => ws_state[q] # "new"
  /\ calls < MaxCalls
  /\ calls' = calls + 1
  /\ \E outcome \in AcceptOutcomes(ws_state[s]) :
       IF outcome = "accepted"
       THEN /\ ws_state' = [ws_state EXCEPT ![s] = "open"]
            /\ connections' = Register(connections, r, s)
            /\ unsubscribed' = unsubscribed \ {<<r, s>>}
            /\ barred' = [b \in Requests |->
                            IF bc[b].route_id = r THEN barred[b] \ {s} ELSE barred[b]]
       ELSE UNCHANGED <<ws_state, connections, unsubscribed, barred>>
  /\ UNCHANGED <<handler, bc, log, stayed, after_fail>>
  /\ UNCHANGED <<solver_vars, job_vars, reroute_vars, matrix_vars, api_vars, call_vars, db_routes, hist_vars, validate_vars>>

\* manager.disconnect(r, s), for any sink and route, registered or not.
ManagerDisconnect(s, r) ==
  /\ calls < MaxCalls
  /\ calls' = calls + 1
  /\ connections' = disconnect(connections, r, s)
  /\ stayed' = Unregistered(r, connections')
  /\ unsubscribed' = Unsubscribe(r, {s})
  /\ UNCHANGED <<ws_state, handler, bc, log, after_fail, barred>>
  /\ UNCHANGED <<solver_vars, job_vars, reroute_vars, matrix_vars, api_vars, call_vars, db_routes, hist_vars, validate_vars>>

ManagerNext ==
  \/ \E s \in 1..MaxDirectSinks, r \in RouteIds : ManagerConnect(s, r)
  \/ \E s \in Sinks : ClientClose(s)
  \/ \E s \in 1..MaxDirectSinks, r \in RouteIds : ManagerDisconnect(s, r)
  \/ \E b \in Requests, r \in RouteIds : RerouteRequest(b, r)
  \/ \E b \in Requests : BroadcastSend(b)
  \/ \E b \in Requests : BroadcastReturn(b)

ManagerSpec == HubInit /\ [][ManagerNext]_vars

\* ======================================================= the optimisation jobs
\* The depots table holds one depot; a request may name it or a depot that
\* does not exist.  The endpoint receives the date as a validated date and
\* passes str(req.date), so the job's date_str is always an ISO date.
Depots == {1}
DepotIds == {1, 2}
Dates == {"2026-03-02", "2026-03-03"}

\* datetime.strptime(date_str, "%Y-%m-%d").date()
strptime(date_str) ==
  CASE date_str = "2026-03-02" -> <<2026, 3, 2>>
    [] date_str = "2026-03-03" -> <<2026, 3, 3>>

\* The worker is configured without task_track_started, so a task that has
\* been picked up keeps the state PENDING until it finishes.
task_track_started == FALSE

\* Celery's ready states, and AsyncResult.successful().
READY_STATES == {"SUCCESS", "FAILURE", "REVOKED"}
ReadyIsSuccessful(state) == state \in READY_STATES
successful(state) == state = "SUCCESS"

\* str.lower() on the Celery state names
lower(state) ==
  CASE state = "PENDING" -> "pending"
    [] state = "STARTED" -> "started"
    [] state = "RETRY" -> "retry"
    [] state = "SUCCESS" -> "success"
    [] state = "FAILURE" -> "failure"
    [] state = "REVOKED" -> "revoked"

\* str(exc)
str(exc) == exc.msg

\* GET /routes/{job_id}/status
get_job_status(job_id) ==
  LET res == backend[job_id] IN
    IF res.state \in READY_STATES
    THEN IF successful(res.state)
         THEN [status |-> "done", result |-> res.result]
         ELSE [status |-> "failed", error |-> str(res.result)]
    ELSE [status |-> lower(res.state)]

\* The exceptions a job can raise.
NoResultFound == [kind |-> "exc", type |-> "NoResultFound",
                  msg |-> "No row was found when one was required"]
OperationalError == [kind |-> "exc", type |-> "OperationalError",
                     msg |-> "connection was closed in the middle of operation"]

\* The rows of one optimised route.
RouteHeader(r, id, route_date) ==
  [id |-> id, vehicle_id |-> r.vehicle.id, date |-> route_date,
   total_distance_km |-> r.dist]
RouteStopsOf(r, id) ==
  LET rows == RouteStopRows(r.stops, 0) IN
    {[route_id |-> id, stop_id |-> rows[q].stop_id, sequence |-> rows[q].sequence] :
       q \in 1..Len(rows)}

Merge(a, b) ==
  [routes |-> a.routes \cup b.routes, route_stops |-> a.route_stops \cup b.route_stops]

\* What the other sessions see after a flush of the given rows: a flush
\* writes inside the open transaction, so nothing more than before.
FlushCommits(committed, rows) == Merge(committed, rows)
AfterFlush(committed, rows) == committed

\* The value the job returns.
JobResult(jb) ==
  [kind |-> "value", route_ids |-> jobs[jb].db_route_ids,
   num_routes |-> Len(jobs[jb].optimized_routes),
   total |-> SumDist(jobs[jb].optimized_routes, 1)]

\* The tables a job reads: MaxJobStops heavy stops, and a fleet of one roomy
\* vehicle (one route) or of two smaller ones (two routes).
JobFleets == {f \in Fleets : f[1].capacity_kg >= 3}
JobInit ==
  /\ SolverBuilt({MaxJobStops}, {"linear"}, JobFleets)
  /\ \A k \in DOMAIN stops : stops[k].weight > 1
  /\ SolverIdle
  /\ ValidateIdle
  /\ HubIdle
  /\ JobsIdle
  /\ RerouteIdle
  /\ MatrixIdle
  /\ ApiIdle

job_others == <<solver_vars, call_vars, db_routes, hist_vars, validate_vars, hub_vars,
                reroute_vars, matrix_vars, api_vars>>

\* POST /routes/optimize: the task is put on the queue and the request
\* answers at once.  Job identifiers are numbered in submission order.
Submit(jb, depot_id, date) ==
  /\ jobs[jb].pc = "none"
  /\ \A earlier \in Jobs : earlier < jb => jobs[earlier].pc # "none"
  /\ jobs' = [jobs EXCEPT ![jb].pc = "queued", ![jb].depot_id = depot_id,
                          ![jb].date_str = date]
  /\ responses' = [responses EXCEPT ![jb] = [job_id |-> jb, status |-> "queued"]]
  /\ UNCHANGED <<polled, backend, store, tx, next_route_id, job_others>>

\* GET /routes/{job_id}/status for a submitted job.
Poll(jb) ==
  /\ jobs[jb].pc # "none"
  /\ polled' = [job_id |-> jb, answer |-> get_job_status(jb)]
  /\ UNCHANGED <<jobs, responses, backend, store, tx, next_route_id, job_others>>

\* A worker takes the task off the queue and enters run_optimization.
WorkerPick(jb) ==
  /\ jobs[jb].pc = "queued"
  /\ jobs' = [jobs EXCEPT ![jb].pc = "load"]
  /\ backend' = IF task_track_started
                THEN [backend EXCEPT ![jb].state = "STARTED"]
                ELSE backend
  /\ UNCHANGED <<polled, responses, store, tx, next_route_id, job_others>>

\* The job raises: the session is closed without a commit, which rolls the
\* transaction back, and the worker stores FAILURE with the exception.
Raise(jb, exc) ==
  /\ jobs' = [jobs EXCEPT ![jb].pc = "raised", ![jb].exc = exc, ![jb].pending = {}]
  /\ tx' = [tx EXCEPT ![jb] = NoRows]
  /\ backend' = [backend EXCEPT ![jb] = [state |-> "FAILURE", result |-> exc]]
  /\ UNCHANGED <<polled, responses, next_route_id, job_others>>

\* Lines 209-254: the loads, the matrices, the solver and the date.  The
\* depot is read with scalar_one(), which raises when there is no such depot.
JobLoad(jb) ==
  /\ jobs[jb].pc = "load"
  /\ IF jobs[jb].depot_id \notin Depots
     THEN Raise(jb, NoResultFound) /\ UNCHANGED store
     ELSE /\ jobs' = [jobs EXCEPT ![jb].optimized_routes = solve,
                                  ![jb].pc = "persist", ![jb].k = 1]
          /\ UNCHANGED <<polled, responses, backend, store, tx, next_route_id, job_others>>

\* Lines 257-273, one turn of the loop: the route header is added and
\* flushed, which also flushes the stop rows added in the turn before; then
\* the stop rows of this route are added to the session.
JobFlush(jb) ==
  LET jv == jobs[jb]
      r == jv.optimized_routes[jv.k]
      header == RouteHeader(r, next_route_id, strptime(jv.date_str))
      flushed == [routes |-> {header}, route_stops |-> jv.pending]
  IN /\ jv.pc = "persist"
     /\ jv.k <= Len(jv.optimized_routes)
     /\ tx' = [tx EXCEPT ![jb] = Merge(tx[jb], flushed)]
     /\ store' = AfterFlush(store, flushed)
     /\ next_route_id' = next_route_id + 1
     /\ jobs' = [jobs EXCEPT ![jb].pending = RouteStopsOf(r, next_route_id),
                             ![jb].db_route_ids = Append(jv.db_route_ids, next_route_id),
                             ![jb].k = jv.k + 1]
     /\ UNCHANGED <<polled, responses, backend, job_others>>

\* Line 275: the commit flushes what is pending and makes the job's rows
\* visible together.
JobCommit(jb) ==
  LET jv == jobs[jb] IN
    /\ jv.pc = "persist"
    /\ jv.k > Len(jv.optimized_routes)
    /\ store' = Merge(store, Merge(tx[jb], [routes |-> {}, route_stops |-> jv.pending]))
    /\ tx' = [tx EXCEPT ![jb] = NoRows]
    /\ jobs' = [jobs EXCEPT ![jb].pc = "committed", ![jb].pending = {}]
    /\ UNCHANGED <<polled, responses, backend, next_route_id, job_others>>

\* The database fails under a flush or under the commit.
JobDbError(jb) ==
  /\ jobs[jb].pc = "persist"
  /\ Raise(jb, OperationalError)
  /\ UNCHANGED store

\* Lines 277-284 and the end of the task: the worker stores SUCCESS.
JobReturn(jb) ==
  /\ jobs[jb].pc = "committed"
  /\ jobs' = [jobs EXCEPT ![jb].pc = "returned"]
  /\ backend' = [backend EXCEPT ![jb] = [state |-> "SUCCESS", result |-> JobResult(jb)]]
  /\ UNCHANGED <<polled, responses, store, tx, next_route_id, job_others>>

JobNext ==
  \/ \E jb \in Jobs, depot_id \in DepotIds, date \in Dates : Submit(jb, depot_id, date)
  \/ \E jb \in Jobs : Poll(jb)
  \/ \E jb \in Jobs : WorkerPick(jb)
  \/ \E jb \in Jobs : JobLoad(jb)
  \/ \E jb \in Jobs : JobFlush(jb)
  \/ \E jb \in Jobs : JobCommit(jb)
  \/ \E jb \in Jobs : JobDbError(jb)
  \/ \E jb \in Jobs : JobReturn(jb)

JobSpec == JobInit /\ [][JobNext]_vars

\* ================================================================ reroute
\* The persisted route of the reroute calls, and a route id that has no row.
PersistedRouteId == 7
RerouteIds == {7, 8}

\* The RouteStop rows of the persisted route: the stops table in reverse
\* order of id, at sequence 0, 1, ...
PersistedRows ==
  [routes |-> {[id |-> PersistedRouteId, vehicle_id |-> vehicles[1].id,
                date |-> strptime("2026-03-02"), total_distance_km |-> 0]},
   route_stops |-> {[route_id |-> PersistedRouteId, stop_id |-> stops[n - 1 - q].id,
                     sequence |-> q] : q \in 0..(n - 1)}]

\* select(Stop).where(Stop.id == rs.stop_id) ... scalar_one()
StopById(id) == stops[CHOOSE k \in DOMAIN stops : stops[k].id = id]

\* .order_by(RouteStop.sequence), and an ordering by stop id
RECURSIVE OrderByStopId(_)
OrderByStopId(rows) ==
  IF rows = {} THEN <<>>
  ELSE LET first == CHOOSE r \in rows : \A o \in rows : r.stop_id <= o.stop_id
       IN <<first>> \o OrderByStopId(rows \ {first})
RECURSIVE OrderBySequence(_)
OrderBySequence(rows) ==
  IF rows = {} THEN <<>>
  ELSE LET first == CHOOSE r \in rows : \A o \in rows : r.sequence <= o.sequence
       IN <<first>> \o OrderBySequence(rows \ {first})

\* Lines 48-59: the route's rows in sequence order, then their stops.
LoadedStops(route_id) ==
  LET route_stops_rows ==
        OrderBySequence({rs \in store.route_stops : rs.route_id = route_id})
  IN [q \in 1..Len(route_stops_rows) |-> StopById(route_stops_rows[q].stop_id)]

\* The time matrix built for the coordinates (depot first, then the stops
\* in route order), in hundredths of a minute.  "symmetric" is the shape
\* of the haversine fallback, "directed" the shape of a road matrix,
\* "colocated" has the depot and the first stop at the same place, "near"
\* has them 0.16 minutes apart.
RerouteKinds == {"symmetric", "directed", "colocated", "near"}
BuiltEntry(kind, a, b) ==
  IF a = b THEN 0
  ELSE CASE kind = "symmetric" -> 160 * Abs(a - b) + 16
         [] kind = "directed" -> 160 + 16 * ((3 * a + 5 * b) % 4) + (IF a < b THEN 0 ELSE 32)
         [] kind = "near" -> IF {a, b} = {0, 1} THEN 16 ELSE 176
         [] OTHER -> IF {a, b} = {0, 1} THEN 0 ELSE 176
BuiltMatrix(kind, size) ==
  [a \in 0..(size - 1) |-> [b \in 0..(size - 1) |-> BuiltEntry(kind, a, b)]]

\* len(time_matrix)
Size(tm) == Cardinality(DOMAIN tm)

\* The traffic events of a request: dicts with integer indices inside and
\* outside the matrix, negative ones included, and dicts with keys missing.
\* The indices run from -N to N-1 for the longest route, which for a shorter
\* route includes indices below -N and indices from N up.
IdxRange == (0 - (MaxRouteStops + 1))..MaxRouteStops
Factors == {50, 150}
Events ==
  [from_idx : IdxRange, to_idx : IdxRange, delay_factor : Factors]
    \cup {[to_idx |-> 1], [from_idx |-> 1, to_idx |-> 2], [delay_factor |-> 50]}

\* event.get(key, default)
Get(event, key, default) == IF key \in DOMAIN event THEN event[key] ELSE default

\* A list index as Python resolves it: a negative index counts from the end.
PyIndex(x, length) == IF x < 0 THEN x + length ELSE x
PyIndexError(x, length) == x < 0 - length \/ x >= length

Hastened(tm, a, b, factor) ==
  [tm EXCEPT ![a][b] = (tm[a][b] * 100) \div factor]

\* time_matrix[fi][ti] *= factor, with the factor a percentage
Delayed(tm, a, b, factor) ==
  [tm EXCEPT ![a][b] = (tm[a][b] * factor) \div 100]

\* Lines 73-78, one event.  The test compares only against the lengths, so
\* a negative index passes it; time_matrix[fi] is evaluated in the test and
\* time_matrix[fi][ti] in the assignment.
ApplyOne(tm, event) ==
  LET fi == Get(event, "from_idx", 0)
      ti == Get(event, "to_idx", 0)
      factor == Get(event, "delay_factor", default_delay_factor)
      size == Size(tm)
  IN IF ~(fi < size) THEN [raised |-> FALSE, tm |-> tm]
     ELSE IF PyIndexError(fi, size) THEN [raised |-> TRUE, tm |-> tm]
     ELSE IF ~(ti < size) THEN [raised |-> FALSE, tm |-> tm]
     ELSE IF PyIndexError(ti, size) THEN [raised |-> TRUE, tm |-> tm]
     ELSE [raised |-> FALSE,
           tm |-> Delayed(tm, PyIndex(fi, size), PyIndex(ti, size), factor)]

\* The history matrix: the event is applied when both indices are in
\* 0..N-1 and skipped otherwise.
InRangeApplied(tm, event) ==
  LET fi == Get(event, "from_idx", 0)
      ti == Get(event, "to_idx", 0)
      factor == Get(event, "delay_factor", default_delay_factor)
  IN IF fi \in DOMAIN tm /\ ti \in DOMAIN tm THEN Delayed(tm, fi, ti, factor) ELSE tm

\* round(arrival, 1), in tenths of a minute.  Every time of the model is an
\* even number of hundredths, so no value lies half-way between two tenths.
Round1(x) == (x + 5) \div 10

\* h, m = divmod(int(arrival), 60); f"{h:02d}:{m:02d}"
Pad2(k) == IF k < 10 THEN "0" \o ToString(k) ELSE ToString(k)
HHMM(x) == Pad2((x \div 100) \div 60) \o ":" \o Pad2((x \div 100) % 60)

\* time_to_minutes(stop.earliest_time), in hundredths
EarliestOf(stop) == stop.earliest_min * 100

\* Lines 81-102: the walk along the loaded stops.
RECURSIVE EtaWalk(_, _, _, _, _)
EtaWalk(tm, stops_list, pos, current_time, current_pos) ==
  IF pos >= Len(stops_list) THEN <<>>
  ELSE LET stop == stops_list[pos + 1]
           matrix_idx == pos + 1
           travel == tm[current_pos][matrix_idx]
           arrival == current_time + travel
           earliest == EarliestOf(stop)
       IN <<[stop_id |-> stop.id, sequence |-> pos,
             planned_arrival |-> HHMM(arrival),
             planned_arrival_min |-> Round1(arrival)]>>
          \o EtaWalk(tm, stops_list, pos + 1, Max(arrival, earliest), matrix_idx)

IndexError == [kind |-> "exc", type |-> "IndexError", msg |-> "list index out of range"]

\* The stops of the route either open late or close early.
RerouteInit ==
  /\ SolverBuilt(1..MaxRouteStops, {"linear"}, {<<[id |-> 1, capacity_kg |-> 5]>>})
  /\ \A k \in DOMAIN stops : stops[k].earliest_min > start_min \/ stops[k].weight > 1
  /\ SolverIdle
  /\ ValidateIdle
  /\ HubIdle
  /\ NoJobs
  /\ store = PersistedRows
  /\ RerouteIdle
  /\ MatrixIdle
  /\ ApiIdle

reroute_others == <<solver_vars, call_vars, db_routes, hist_vars, validate_vars, hub_vars,
                    job_vars, matrix_vars, api_vars>>

\* Lines 44-70: the loads and the matrix.  A route id without a row makes
\* scalar_one() raise.
RerouteLoad(route_id, kind) ==
  /\ rr.pc = "idle"
  /\ IF route_id \notin {r.id : r \in store.routes}
     THEN /\ rr' = [rr EXCEPT !.pc = "raised", !.route_id = route_id, !.exc = NoResultFound]
          /\ UNCHANGED rr_ref
     ELSE LET loaded == LoadedStops(route_id)
              built == BuiltMatrix(kind, Len(loaded) + 1)
          IN /\ rr' = [rr EXCEPT !.pc = "events", !.route_id = route_id,
                                 !.stops = loaded, !.time_matrix = built]
             /\ rr_ref' = [rr_ref EXCEPT !.base = built, !.delayed = built]
  /\ UNCHANGED reroute_others

\* Lines 73-78: the next event of the request's list.
RerouteEvent(event) ==
  LET applied == ApplyOne(rr.time_matrix, event) IN
    /\ rr.pc = "events"
    /\ rr.n_events < MaxEvents
    /\ rr' = IF applied.raised
             THEN [rr EXCEPT !.pc = "raised", !.exc = IndexError,
                             !.n_events = rr.n_events + 1]
             ELSE [rr EXCEPT !.time_matrix = applied.tm, !.n_events = rr.n_events + 1]
    /\ rr_ref' = [rr_ref EXCEPT
                    !.delayed = InRangeApplied(rr_ref.delayed, event),
                    !.slow_only = @ /\ Get(event, "delay_factor", default_delay_factor) >= 100,
                    !.hit01 = @ \/ (/\ Get(event, "from_idx", 0) = 0
                                    /\ Get(event, "to_idx", 0) = 1
                                    /\ Get(event, "delay_factor", default_delay_factor) > 100)]
    /\ UNCHANGED reroute_others

\* Lines 80-108: the list of events has ended; the walk and the return.
RerouteReturn ==
  /\ rr.pc = "events"
  /\ rr' = [rr EXCEPT !.pc = "done",
                      !.result = [route_id |-> rr.route_id, rerouted |-> TRUE,
                                  stops |-> EtaWalk(rr.time_matrix, rr.stops, 0, T0, 0)]]
  /\ UNCHANGED rr_ref
  /\ UNCHANGED reroute_others

RerouteNext ==
  \/ \E route_id \in RerouteIds, kind \in RerouteKinds : RerouteLoad(route_id, kind)
  \/ \E event \in Events : RerouteEvent(event)
  \/ RerouteReturn

RerouteSpec == RerouteInit /\ [][RerouteNext]_vars

\* ------------------------------------------ the matrix provider selection
\* The try/except around the matrix build, the same in run_optimization and
\* in reroute_active.  Places lie on one meridian, PlaceKm apart.
Callers == {"run_optimization", "reroute_active"}
ApiKeys == {"", "5b3ce3597851"}
Places == 0..MaxPlace
Coords == UNION {[1..m -> Places] : m \in 2..MaxPoints}
PlaceKm == 5

\* haversine_matrix: great-circle distances, and times at avg_speed_kmh.
haversine_matrix(coords) ==
  LET size == Len(coords)
      d == [a \in 0..(size - 1) |-> [b \in 0..(size - 1) |->
              PlaceKm * Abs(coords[a + 1] - coords[b + 1])]]
  IN [distance |-> d,
      time |-> [a \in 0..(size - 1) |-> [b \in 0..(size - 1) |->
                  (d[a][b] * 60) \div avg_speed_kmh]]]

\* What the provider may do with the one POST: answer 200 with a body of
\* road distances (km) and durations (seconds), or make the call raise.  The
\* roads are `detour` times as long as the great circle and driven at 30
\* km/h.
Detours == {2, 3}
ProviderBody(coords, detour) ==
  LET size == Len(coords)
      km == [a \in 0..(size - 1) |-> [b \in 0..(size - 1) |->
               detour * PlaceKm * Abs(coords[a + 1] - coords[b + 1])]]
  IN [distances |-> km,
      durations |-> [a \in 0..(size - 1) |-> [b \in 0..(size - 1) |-> 120 * km[a][b]]]]

\* The classes of what the call raises: the client's timeout, a transport
\* error, raise_for_status on a non-2xx answer, response.json() on a body
\* that is not JSON, data["distances"] on a body without the key, s / 60.0
\* on a null duration; and the cancellation of the awaiting task.
ProviderRaises ==
  {"TimeoutException", "ConnectError", "HTTPStatusError", "JSONDecodeError",
   "KeyError", "TypeError", "CancelledError"}
ProviderOutcomes == {"ok"} \cup ProviderRaises

\* build_distance_matrix, its last lines: the matrices of a parsed body.
build_distance_matrix(data) ==
  [distance |-> data["distances"],
   time |-> [a \in DOMAIN data["durations"] |->
               [b \in DOMAIN data["durations"][a] |-> data["durations"][a][b] \div 60]]]

\* `except Exception`: every class but those that derive from BaseException
\* only.
CaughtHttpErrors(exc) ==
  exc.class \in {"TimeoutException", "ConnectError", "HTTPStatusError"}
Caught(exc) == exc.class # "CancelledError"

MatrixInit ==
  /\ SolverBuilt({1}, {"linear"}, {<<[id |-> 1, capacity_kg |-> 5]>>})
  /\ stops[0] = StopRecord(0, [weight |-> 1, earliest_min |-> 480, latest_min |-> 840])
  /\ SolverIdle
  /\ ValidateIdle
  /\ HubIdle
  /\ JobsIdle
  /\ RerouteIdle
  /\ MatrixIdle
  /\ ApiIdle

matrix_others == <<solver_vars, call_vars, db_routes, hist_vars, validate_vars, hub_vars,
                   job_vars, reroute_vars, api_vars>>

\* The caller has its coords and enters the try.
MatrixBegin(caller, key, coords) ==
  /\ mx.pc = "idle"
  /\ mx' = [mx EXCEPT !.pc = "try", !.caller = caller, !.ors_api_key = key,
                      !.coords = coords]
  /\ UNCHANGED matrix_others

\* `if settings.ors_api_key:` the POST is sent and awaited; else the
\* fallback is computed in place.
MatrixTry ==
  /\ mx.pc = "try"
  /\ mx' = IF mx.ors_api_key # ""
           THEN [mx EXCEPT !.pc = "awaiting", !.primary_calls = @ + 1]
           ELSE [mx EXCEPT !.pc = "built",
                           !.dist_matrix = haversine_matrix(mx.coords).distance,
                           !.time_matrix = haversine_matrix(mx.coords).time]
  /\ UNCHANGED matrix_others

\* The await ends: build_distance_matrix returns the provider's matrices,
\* or an exception leaves it.
ProviderAnswers(outcome, detour) ==
  /\ mx.pc = "awaiting"
  /\ mx' = IF outcome = "ok"
           THEN LET built == build_distance_matrix(ProviderBody(mx.coords, detour))
                IN [mx EXCEPT !.pc = "built", !.dist_matrix = built.distance,
                              !.time_matrix = built.time]
           ELSE [mx EXCEPT !.pc = "raising",
                           !.exc = [kind |-> "exception", class |-> outcome]]
  /\ UNCHANGED matrix_others

\* The except clause: a caught exception is logged at warning level and the
\* fallback is computed; any other leaves the caller.
MatrixExcept ==
  /\ mx.pc = "raising"
  /\ mx' = IF Caught(mx.exc)
           THEN [mx EXCEPT !.pc = "built", !.warnings = @ + 1,
                           !.dist_matrix = haversine_matrix(mx.coords).distance,
                           !.time_matrix = haversine_matrix(mx.coords).time]
           ELSE [mx EXCEPT !.pc = "failed"]
  /\ UNCHANGED matrix_others

MatrixNext ==
  \/ \E caller \in Callers, key \in ApiKeys, coords \in Coords : MatrixBegin(caller, key, coords)
  \/ MatrixTry
  \/ \E outcome \in ProviderOutcomes, detour \in Detours : ProviderAnswers(outcome, detour)
  \/ MatrixExcept

MatrixSpec == MatrixInit /\ [][MatrixNext]_vars

\* ------------------------------------------------- the routes router
\* One request to GET /{route_id}/stops, GET /{route_id}/detail or
\* POST /{route_id}/reroute, next to the sockets of the hub.  The reroute
\* handler is request 1 of the hub; it runs reroute_active, then the
\* broadcast, then returns.
ApiOps == {"get_route_stops", "get_route_detail", "reroute"}
ApiKinds == {"symmetric", "near"}
ApiEvents == {[from_idx |-> 0, to_idx |-> 1, delay_factor |-> 150]}

\* raise HTTPException(status_code=404, detail="Route not found")
NotFound == [status |-> 404, detail |-> "Route not found"]
\* An exception no handler catches: the server answers 500.
ServerError == [status |-> 500, detail |-> "Internal Server Error"]
Ok(body) == [status |-> 200, body |-> body]

\* select(RouteStop).where(RouteStop.route_id == route_id).order_by(RouteStop.sequence)
OrderedRouteStops(route_id) ==
  OrderBySequence({rs \in store.route_stops : rs.route_id = route_id})

\* The message the handler hands to manager.broadcast, which send_json
\* writes to every socket of the route.
BroadcastMessage(updated) == [event |-> "rerouted", route |-> updated]

ApiInit ==
  /\ SolverBuilt({1}, {"linear"}, {<<[id |-> 1, capacity_kg |-> 5]>>})
  /\ stops[0] = StopRecord(0, [weight |-> 1, earliest_min |-> 480, latest_min |-> 840])
  /\ SolverIdle
  /\ ValidateIdle
  /\ HubIdle
  /\ NoJobs
  /\ store = PersistedRows
  /\ RerouteIdle
  /\ MatrixIdle
  /\ ApiIdle

api_others == <<solver_vars, call_vars, db_routes, hist_vars, validate_vars, hub_vars,
                job_vars, reroute_vars, matrix_vars>>

\* The request arrives and its handler is entered.
ApiRequest(operation, route_id) ==
  /\ api.pc = "idle"
  /\ api' = [api EXCEPT !.pc = "handling", !.op = operation, !.route_id = route_id]
  /\ UNCHANGED api_others

\* get_route_stops
ApiGetStops ==
  LET stops_rows == OrderedRouteStops(api.route_id) IN
    /\ api.pc = "handling"
    /\ api.op = "get_route_stops"
    /\ api' = [api EXCEPT !.pc = "responded",
                          !.response = IF stops_rows = <<>> THEN NotFound ELSE Ok(stops_rows)]
    /\ UNCHANGED api_others

\* get_route_detail
ApiGetDetail ==
  LET route_stops == OrderedRouteStops(api.route_id) IN
    /\ api.pc = "handling"
    /\ api.op = "get_route_detail"
    /\ api' = [api EXCEPT
                 !.pc = "responded",
                 !.response =
                   IF route_stops = <<>> THEN NotFound
                   ELSE Ok([q \in 1..Len(route_stops) |->
                              [stop_id |-> route_stops[q].stop_id,
                               sequence |-> route_stops[q].sequence,
                               package_weight_kg |-> StopById(route_stops[q].stop_id).weight]])]
    /\ UNCHANGED api_others

\* reroute, up to the await of reroute_active
ApiReroute ==
  /\ api.pc = "handling"
  /\ api.op = "reroute"
  /\ RerouteRequest(1, ToString(api.route_id))

\* reroute_active, called by the handler
ApiRerouteLoad(kind) ==
  /\ bc[1].pc = "rerouting"
  /\ RerouteLoad(api.route_id, kind)

ApiRerouteEvent(event) ==
  /\ bc[1].pc = "rerouting"
  /\ RerouteEvent(event)

ApiRerouteReturn ==
  /\ bc[1].pc = "rerouting"
  /\ RerouteReturn

\* reroute_active has returned `updated`: manager.broadcast(str(route_id),
\* {"event": "rerouted", "route": updated})
ApiBroadcastSend ==
  /\ rr.pc = "done"
  /\ BroadcastSend(1)

ApiBroadcastReturn ==
  /\ rr.pc = "done"
  /\ BroadcastReturn(1)

\* return updated
ApiRerouteRespond ==
  /\ api.pc = "handling"
  /\ api.op = "reroute"
  /\ bc[1].pc = "done"
  /\ api' = [api EXCEPT !.pc = "responded", !.response = Ok(rr.result)]
  /\ UNCHANGED api_others

\* reroute_active raised: nothing in the handler or in the application
\* catches it, the broadcast line is not reached.
ApiRerouteRaises ==
  /\ api.pc = "handling"
  /\ api.op = "reroute"
  /\ rr.pc = "raised"
  /\ api' = [api EXCEPT !.pc = "responded", !.response = ServerError]
  /\ UNCHANGED api_others

ApiNext ==
  \/ \E s \in Sinks, r \in RouteIds : Connect(s, r)
  \/ \E s \in Sinks : ClientClose(s)
  \/ \E s \in Sinks : HandlerDisconnect(s)
  \/ \E operation \in ApiOps, route_id \in RerouteIds : ApiRequest(operation, route_id)
  \/ ApiGetStops
  \/ ApiGetDetail
  \/ ApiReroute
  \/ \E kind \in ApiKinds : ApiRerouteLoad(kind)
  \/ \E event \in ApiEvents : ApiRerouteEvent(event)
  \/ ApiRerouteReturn
  \/ ApiBroadcastSend
  \/ ApiBroadcastReturn
  \/ ApiRerouteRespond
  \/ ApiRerouteRaises

ApiSpec == ApiInit /\ [][ApiNext]_vars

\* ============================================================== claims
\* Reference definitions used by the properties (not taken from the code).

\* The nodes a route visits: depot, the stops' matrix indices, depot.
Tour(stop_indices) ==
  <<depot_idx>> \o [k \in 1..Len(stop_indices) |-> stops[stop_indices[k]].idx] \o <<depot_idx>>

RECURSIVE SumLegs(_, _)
SumLegs(tour, k) ==
  IF k >= Len(tour) THEN 0 ELSE dist[tour[k]][tour[k + 1]] + SumLegs(tour, k + 1)

\* The closed-loop distance of an ordering; 0 for the empty ordering.
ClosedLoop(stop_indices) ==
  IF stop_indices = <<>> THEN 0 ELSE SumLegs(Tour(stop_indices), 1)

\* The clock when the vehicle leaves the k-th stop of the ordering, and the
\* raw arrival at it: dispatch at t0, travel from the time matrix, clock
\* raised to earliest_min when the vehicle is early.
RECURSIVE Departure(_, _, _)
Arrival(stop_indices, k, t0) ==
  LET from == IF k = 1 THEN depot_idx ELSE stops[stop_indices[k - 1]].idx
  IN Departure(stop_indices, k - 1, t0) + time_m[from][stops[stop_indices[k]].idx]
Departure(stop_indices, k, t0) ==
  IF k = 0 THEN t0
  ELSE Max(Arrival(stop_indices, k, t0), stops[stop_indices[k]].earliest_min)

OnTime(stop_indices, t0) ==
  \A k \in 1..Len(stop_indices) :
    Arrival(stop_indices, k, t0) <= stops[stop_indices[k]].latest_min

StopsOf(rs) == UNION {Range(rs[k].stops) : k \in 1..Len(rs)}

NoStopTwice(rs) ==
  \A a, b \in 1..Len(rs) :
    \A p \in 1..Len(rs[a].stops), q \in 1..Len(rs[b].stops) :
      (a # b \/ p # q) => rs[a].stops[p] # rs[b].stops[q]

InTwoOpt == pc \in {"two_opt_while", "two_opt_scan"}
SolveReturns == pc = "solve_map" /\ rk > Len(routes)    \* solve() is about to return `out`
Returned(o) == pc = "idle" /\ op = o                     \* call o has returned `result`

\* ------------------------------------------------------------------ C1
\* C1: the routes solve() returns and the stops left unassigned partition
\* the stop indices 0..n-1: no index is in two routes or twice in one, every
\* index is in a route or unassigned and not both, and the number of routed
\* stops plus score(routes)["unassigned"] is n.
C1_Partition(rs) ==
  /\ NoStopTwice(rs)
  /\ StopsOf(rs) \subseteq 0..(n - 1)
  /\ SumStops(rs, 1) + score(rs).unassigned = n

C1_StopConservation ==
  /\ SolveReturns =>
       /\ C1_Partition(out)
       /\ StopsOf(out) \cup Range(unassigned) = 0..(n - 1)
       /\ StopsOf(out) \cap Range(unassigned) = {}
       /\ score(out).unassigned = Len(unassigned)
  /\ Returned("solve") => C1_Partition(result)

\* solve() is about to return two routes and has left a stop unassigned
C1_Witness ==
  /\ SolveReturns
  /\ Len(out) = 2
  /\ unassigned # <<>>

\* ------------------------------------------------------------------ C2
\* C2: every route returned by _greedy() and by solve() carries at most
\* its vehicle's capacity, and a stop heavier than every vehicle's capacity
\* is in no route.
TooHeavy == {s \in DOMAIN stops :
               \A k \in 1..Len(vehicles) : stops[s].weight > vehicles[k].capacity_kg}

C2_Within(rs) ==
  /\ \A k \in 1..Len(rs) : SumWeights(rs[k].stops, 1) <= rs[k].vehicle.capacity_kg
  /\ StopsOf(rs) \cap TooHeavy = {}

C2_CapacityRespected ==
  /\ (Returned("greedy") \/ Returned("solve")) => C2_Within(result)
  /\ op \in {"greedy", "solve"} => C2_Within(routes) /\ C2_Within(out)

C2_Witness ==
  /\ Returned("solve")
  /\ TooHeavy # {}
  /\ \E k \in 1..Len(result) :
       SumWeights(result[k].stops, 1) = result[k].vehicle.capacity_kg

\* ------------------------------------------------------------------ C3
\* C3: in every route of _greedy() and of solve(), walked from the depot
\* at start_min, the arrival at each stop is at most the stop's latest_min;
\* and whenever 2-opt has accepted a reordering, the ordering it holds is
\* on time as well.
C3_AllOnTime(rs) == \A k \in 1..Len(rs) : OnTime(rs[k].stops, start_min)

C3_TimeWindowsRespected ==
  /\ (Returned("greedy") \/ Returned("solve")) => C3_AllOnTime(result)
  /\ op \in {"greedy", "solve"} => C3_AllOnTime(routes) /\ C3_AllOnTime(out)
  /\ (InTwoOpt /\ op = "solve") => OnTime(best, start_min)
  /\ (InTwoOpt /\ Cardinality(visited) > 1) => OnTime(best, start_min)

\* solve() returns a route that 2-opt reordered, in which the vehicle
\* serves a stop whose window closes at 483 and waits at a stop it reaches
\* before the window opens
C3_Witness ==
  /\ SolveReturns
  /\ \E k \in 1..Len(out) :
       /\ out[k].stops # routes[k].stops
       /\ \E p \in 1..Len(out[k].stops) : stops[out[k].stops[p]].latest_min = 483
       /\ \E p \in 1..Len(out[k].stops) :
            Arrival(out[k].stops, p, start_min) < stops[out[k].stops[p]].earliest_min

\* ------------------------------------------------------------------ C4
\* C4: for every route passed to _two_opt, the distance of the route it
\* returns is at most the closed-loop distance of the ordering passed in
\* (at every moment of the search, and in the returned dist field); and
\* the total distance of solve() is at most that of its greedy routes.
C4_TwoOptMonotone ==
  /\ InTwoOpt => ClosedLoop(best) <= ClosedLoop(route.stops)
  /\ pc = "two_opt_while" => TwoOptResult(route, best).dist <= ClosedLoop(route.stops)
  /\ pc = "solve_map" =>
       \A k \in 1..Len(out) : out[k].dist <= ClosedLoop(routes[k].stops)
  /\ SolveReturns => SumDist(out, 1) <= SumDist(routes, 1)

\* the tests' hand-built ordering [3,0,2,1], strictly improved
C4_Witness ==
  /\ pc = "two_opt_while" /\ ~improved /\ op = "two_opt"
  /\ route.stops = <<3, 0, 2, 1>>
  /\ ClosedLoop(best) < ClosedLoop(route.stops)

\* ------------------------------------------------------------------ C5
\* C5: every solve() on one solver object returns what the first solve()
\* on it returned, whatever _greedy() and solve() calls came between, and
\* no call changes the object's stops, vehicles or matrices.
C5_SameResult ==
  /\ (SolveReturns /\ solved) => out = first_solve
  /\ (Returned("solve") /\ solved) => result = first_solve

C5_Deterministic == []C5_SameResult /\ [][solver_vars' = solver_vars]_vars

\* a later solve() is about to return two routes
C5_Witness == SolveReturns /\ solved /\ Len(out) = 2 /\ out[1].stops # routes[1].stops

\* ------------------------------------------------------------------ C6
\* C6: the 2-opt loop terminates.  Every accepted move lowers the route
\* distance by more than Eps and never yields an ordering seen before in
\* the call; the flag `improved` is set after a pass exactly when the pass
\* accepted a move, and a pass that accepted none is the last; and a rank
\* that is never negative drops at every step of the loop.
PairsFrom(ii, jj, len) ==
  {pr \in (0..(len - 2)) \X (0..(len - 1)) :
     /\ pr[2] >= pr[1] + 2
     /\ (pr[1] > ii \/ (pr[1] = ii /\ pr[2] >= jj))}

C6_Phase ==
  LET len == Len(best)
      all == Cardinality(PairsFrom(0, 0, len))
  IN IF pc = "two_opt_while"
     THEN (IF improved THEN all + 2 ELSE 1)
     ELSE Cardinality(PairsFrom(i, j, len)) + 1 + (IF improved THEN all + 2 ELSE 0)

C6_Rank ==
  LET all == Cardinality(PairsFrom(0, 0, Len(best)))
  IN ClosedLoop(best) * (2 * all + 5) + C6_Phase

C6_Step ==
  /\ (InTwoOpt /\ InTwoOpt' /\ best' # best) =>
       /\ ClosedLoop(best)' < ClosedLoop(best) - Eps
       /\ best' \notin visited
  /\ (InTwoOpt /\ InTwoOpt') => (C6_Rank' < C6_Rank /\ C6_Rank' >= 0)
  /\ (pc = "two_opt_while" /\ pass_best # <<>>) => (improved <=> best # pass_best)
  /\ (pc = "two_opt_while" /\ ~improved) => ~InTwoOpt'

C6_TwoOptTerminates == [][C6_Step]_vars

\* the loop has ended after accepting two moves
C6_Witness == pc = "two_opt_while" /\ ~improved /\ Cardinality(visited) >= 3

\* ---------------------------------------------------------------------- C7
\* What the claim describes, computed without the code's loop: the arrival
\* at the k-th stop of the list when the walk leaves the depot at t0 and, at
\* each stop, the clock becomes max(arrival, earliest_min).
RECURSIVE C7_Leave(_, _, _)
C7_Arrive(sl, k, t0) ==
  (IF k = 1 THEN t0 ELSE C7_Leave(sl, k - 1, t0))
  + time_m[IF k = 1 THEN depot_idx ELSE sl[k - 1].idx][sl[k].idx]
C7_Leave(sl, k, t0) == Max(C7_Arrive(sl, k, t0), sl[k].earliest_min)

C7_Acceptable(sl, capacity, t0) ==
  /\ SumList([k \in 1..Len(sl) |-> sl[k].weight], 1) <= capacity
  /\ \A k \in 1..Len(sl) : C7_Arrive(sl, k, t0) <= sl[k].latest_min

\* C7: validate_route returns (True, arrivals) exactly when the weights sum
\* to at most the capacity and every arrival of the walk from the depot at
\* T0 (clock set to max(arrival, earliest_min) after each stop) is at most
\* the stop's latest_min; arrivals then has one raw arrival per stop, early
\* arrivals included; otherwise it returns (False, []).
C7_ValidateRoute ==
  vr_ret # <<>> =>
    LET sl == vr_args.stops_list
        t0 == vr_args.start_time_min
    IN IF C7_Acceptable(sl, vr_args.vehicle_capacity, t0)
       THEN vr_ret = <<TRUE, [k \in 1..Len(sl) |-> C7_Arrive(sl, k, t0)]>>
       ELSE vr_ret = <<FALSE, <<>>>>

\* A route of three stops is accepted although the walk reaches one of them
\* before its window opens; the raw arrival is what is reported, and the
\* wait pushes a later arrival.
C7_Witness ==
  /\ vr_ret # <<>> /\ vr_ret[1]
  /\ Len(vr_ret[2]) = 3
  /\ \E k \in 1..2 :
       /\ vr_ret[2][k] < vr_args.stops_list[k].earliest_min
       /\ vr_ret[2][k + 1] > vr_ret[2][k] + time_m[vr_args.stops_list[k].idx][vr_args.stops_list[k + 1].idx]


\* ------------------------------------------------------------------ C8
\* C8: the dist field of every route _greedy emits, of every route
\* _two_opt returns and of every route solve() returns is the closed-loop
\* distance of its stop ordering, and so is the total_distance_km of every
\* persisted Route over its RouteStop rows in sequence order.
StopIndexOf(stop_id) == CHOOSE s \in DOMAIN stops : stops[s].id = stop_id

PersistedOrdering(row) ==
  [k \in 1..Len(row.route_stops) |->
     StopIndexOf((CHOOSE rs \in Range(row.route_stops) : rs.sequence = k - 1).stop_id)]

C8_DistOf(rs) == \A k \in 1..Len(rs) : rs[k].dist = ClosedLoop(rs[k].stops)

C8_DistIsClosedLoop ==
  /\ C8_DistOf(routes) /\ C8_DistOf(out) /\ C8_DistOf(result)
  /\ \A k \in 1..Len(db_routes) :
       db_routes[k].total_distance_km = ClosedLoop(PersistedOrdering(db_routes[k]))

\* a persisted route of three or more stops that is not the route greedy
\* built for the first vehicle: 2-opt reordered it
C8_Witness ==
  /\ pc = "done"
  /\ Len(db_routes) >= 1
  /\ Len(db_routes[1].route_stops) >= 3
  /\ PersistedOrdering(db_routes[1]) #
       GreedyWhile(vehicles[1], FreshUnassigned, <<>>, 0, start_min, depot_idx).route_stops

\* ---------------------------------------------------------------------- C9
\* The sockets request b called send_json on, and those that got the payload.
Attempted(b) == {log[m].ws : m \in {q \in 1..Len(log) : log[q].b = b}}
Received(b) == {log[m].ws : m \in {q \in 1..Len(log) : log[q].b = b /\ log[q].ok}}

\* Delivery was attempted to every sink that stood behind a failed one and
\* stayed registered until the broadcast returned.
C9_LaterSinksAttempted ==
  \A b \in Requests : bc[b].pc = "done" =>
    (after_fail[b] \cap stayed[b]) \subseteq Attempted(b)

\* The failed sinks are gone from the list of the route.
C9_FailedSinksPruned ==
  \A b \in Requests : bc[b].pc = "done" =>
    Range(bc[b].dead) \cap Range(Listeners(bc[b].route_id)) = {}

\* The sinks that got the payload are kept: one that is still open is still
\* in the list, now and later.
C9_ReceiversKept ==
  \A b \in Requests : bc[b].pc = "done" =>
    \A s \in Received(b) : ws_state[s] = "open" => s \in Range(Listeners(bc[b].route_id))

\* C9: a sink whose delivery raises does not stop the broadcast: delivery is
\* still attempted to every later sink; once the broadcast has completed
\* the failed sinks are no longer registered for the route while the sinks
\* that received the payload still are.  (No error reaches the caller: the
\* broadcast of the model has no raising exit, as `except Exception` leaves
\* none.)
C9_FailedSinkDoesNotStopBroadcast ==
  /\ C9_LaterSinksAttempted
  /\ C9_FailedSinksPruned
  /\ C9_ReceiversKept

\* --------------------------------------------------------------------- C10
\* The positions of the log at which request b delivered its payload.
DeliveriesOf(b) == {m \in 1..Len(log) : log[m].b = b /\ log[m].ok}

\* C10: two broadcasts on the same route_id serialise: all deliveries of
\* one happen before any delivery of the other (and so no two sinks see
\* the two payloads in opposite orders).
C10_BroadcastsSerialise ==
  \A b1, b2 \in Requests :
    (b1 # b2 /\ bc[b1].route_id # NoRoute /\ bc[b1].route_id = bc[b2].route_id) =>
      \/ \A m1 \in DeliveriesOf(b1), m2 \in DeliveriesOf(b2) : m1 < m2
      \/ \A m1 \in DeliveriesOf(b1), m2 \in DeliveriesOf(b2) : m2 < m1

\* --------------------------------------------------------------------- C11
\* The number of send_json calls of request b on socket s.
AttemptsOn(b, s) == Cardinality({m \in 1..Len(log) : log[m].b = b /\ log[m].ws = s})
FirstAttemptOn(b, s) == CHOOSE m \in 1..Len(log) :
  /\ log[m].b = b /\ log[m].ws = s
  /\ \A q \in 1..(m - 1) : ~(log[q].b = b /\ log[q].ws = s)

\* C11: a sink registered for the route from before a broadcast starts
\* until after it completes gets exactly one delivery attempt of that
\* broadcast, and such sinks are attempted in registration order (sockets
\* are numbered in the order in which they registered), also when other
\* sinks of the route subscribe, unsubscribe or are pruned meanwhile.
C11_ExactlyOneAttemptInOrder ==
  \A b \in Requests : bc[b].pc = "done" =>
    /\ \A s \in stayed[b] : AttemptsOn(b, s) = 1
    /\ \A s1, s2 \in stayed[b] :
         (s1 < s2 /\ AttemptsOn(b, s1) = 1 /\ AttemptsOn(b, s2) = 1)
           => FirstAttemptOn(b, s1) < FirstAttemptOn(b, s2)

StatusWords == {"queued", "started", "done", "failed"}

C13_StatusIsOneOfFour ==
  \A jb \in Jobs :
    jobs[jb].pc # "none" =>
      /\ get_job_status(jb).status \in StatusWords
      /\ polled.job_id = jb => polled.answer.status \in StatusWords
      /\ jobs[jb].pc = "queued" => get_job_status(jb).status = responses[jb].status

\* --------------------------------------------------------------------- C14
\* C14: once a job has raised, the status operation reports failed with the
\* exception rendered as a string and not done, and the answer the submitting
\* request got is the one it was given at submission.
C14_RaisedJobReportsFailed ==
  \A jb \in Jobs :
    jobs[jb].pc = "raised" =>
      /\ get_job_status(jb) = [status |-> "failed", error |-> jobs[jb].exc.msg]
      /\ get_job_status(jb).status # "done"
      /\ responses[jb] = [job_id |-> jb, status |-> "queued"]

\* Both kinds of failure have happened, one of them after a route had been
\* inserted, and the failed job has been polled.
C14_Witness ==
  \E jb, other \in Jobs :
    /\ jobs[jb].pc = "raised" /\ jobs[jb].exc = OperationalError
    /\ jobs[jb].db_route_ids # <<>>
    /\ polled = [job_id |-> jb,
                 answer |-> [status |-> "failed", error |-> OperationalError.msg]]
    /\ jobs[other].pc = "raised" /\ jobs[other].exc = NoResultFound

\* --------------------------------------------------------------------- C15
\* C15: in every state the committed store holds, for each job, either all
\* of its Route rows with all of their RouteStop rows or none of its rows; a
\* job that raised left nothing; every committed Route has its whole stop
\* sequence.
RowsOfJob(jb) ==
  LET jv == jobs[jb] IN
    [routes |-> {RouteHeader(jv.optimized_routes[q], jv.db_route_ids[q],
                             strptime(jv.date_str)) : q \in 1..Len(jv.db_route_ids)},
     route_stops |-> UNION {RouteStopsOf(jv.optimized_routes[q], jv.db_route_ids[q]) :
                              q \in 1..Len(jv.db_route_ids)}]

CommittedOfJob(jb) ==
  [routes |-> {r \in store.routes : r.id \in Range(jobs[jb].db_route_ids)},
   route_stops |-> {rs \in store.route_stops :
                      rs.route_id \in Range(jobs[jb].db_route_ids)}]

FullSequence(r) ==
  LET rows == {rs \in store.route_stops : rs.route_id = r.id} IN
    /\ rows # {}
    /\ {rs.sequence : rs \in rows} = 0..(Cardinality(rows) - 1)
    /\ \E jb \in Jobs : \E q \in 1..Len(jobs[jb].db_route_ids) :
         /\ jobs[jb].db_route_ids[q] = r.id
         /\ rows = RouteStopsOf(jobs[jb].optimized_routes[q], r.id)

C15_AllOrNothing ==
  /\ \A jb \in Jobs :
       \/ CommittedOfJob(jb) = NoRows
       \/ /\ jobs[jb].pc \in {"committed", "returned"}
          /\ Len(jobs[jb].db_route_ids) = Len(jobs[jb].optimized_routes)
          /\ CommittedOfJob(jb) = RowsOfJob(jb)
  /\ \A jb \in Jobs : jobs[jb].pc = "raised" => CommittedOfJob(jb) = NoRows
  /\ \A r \in store.routes : FullSequence(r)
  /\ \A rs \in store.route_stops : \E r \in store.routes : r.id = rs.route_id

\* One job raised after inserting a route, another committed two routes.
C15_Witness ==
  \E jb, other \in Jobs :
    /\ jobs[jb].pc = "raised" /\ jobs[jb].db_route_ids # <<>>
    /\ jobs[other].pc = "returned" /\ Len(jobs[other].optimized_routes) = 2
    /\ CommittedOfJob(other) = RowsOfJob(other)

\* --------------------------------------------------------------------- C16
\* C16: the committed store holds at most one Route per (vehicle, date).
C16_OneRoutePerVehicleAndDate ==
  \A r1, r2 \in store.routes :
    (r1.vehicle_id = r2.vehicle_id /\ r1.date = r2.date) => r1 = r2

\* --------------------------------------------------------------------- C17
\* C17: no stop identifier is referenced by RouteStop rows of two different
\* persisted routes.
C17_StopInOneRoute ==
  \A rs1, rs2 \in store.route_stops :
    rs1.stop_id = rs2.stop_id => rs1.route_id = rs2.route_id

\* --------------------------------------------------------------------- C18
\* C18: whenever reroute returns, its stops are the RouteStop rows of the
\* route, one entry per row, in ascending sequence order with sequence
\* 0..len-1 and the rows' stop ids, whatever the events; and the persisted
\* route and its RouteStops are as they were.
RowsOfRoute(route_id) == {rs \in store.route_stops : rs.route_id = route_id}

C18_RerouteKeepsStops ==
  /\ store = PersistedRows
  /\ rr.pc = "done" =>
       LET res == rr.result.stops IN
         /\ Len(res) = Cardinality(RowsOfRoute(rr.route_id))
         /\ \A q \in 1..Len(res) :
              /\ res[q].sequence = q - 1
              /\ [route_id |-> rr.route_id, stop_id |-> res[q].stop_id,
                  sequence |-> q - 1] \in RowsOfRoute(rr.route_id)

\* A route of two stops has been rerouted with events that changed the
\* matrix.
C18_Witness ==
  /\ rr.pc = "done"
  /\ Len(rr.result.stops) = 2
  /\ rr.n_events > 0
  /\ rr.time_matrix # rr_ref.base

\* --------------------------------------------------------------------- C19
\* C19: an event with from_idx or to_idx outside 0..N-1, negative indices
\* included, is skipped: the time matrix is the built matrix with exactly the
\* in-range events applied, the ETAs are those of that matrix, and no error
\* is raised.
C19_OutOfRangeEventsSkipped ==
  /\ rr.exc.kind = "exc" => rr.exc.type # "IndexError"
  /\ rr.pc \in {"events", "done"} => rr.time_matrix = rr_ref.delayed
  /\ rr.pc = "done" => rr.result.stops = EtaWalk(rr_ref.delayed, rr.stops, 0, T0, 0)

\* --------------------------------------------------------------------- C20
\* C20: the reported arrival at position i is t + TimeMatrix[p][i+1] over
\* the delayed matrix, with t = 480 and p = 0 at the start, then
\* t = max(arrival, earliest_min) and p = i+1; so it is a function of the
\* entries TimeMatrix[i][i+1] alone and events on other edges change
\* nothing; every stop is reported, late or not.  Arrivals are compared as
\* reported, to one decimal.
RECURSIVE RefArrival(_, _, _)
RefArrival(tm, stops_list, pos) ==
  LET t == IF pos = 0 THEN T0
           ELSE Max(RefArrival(tm, stops_list, pos - 1), stops_list[pos].earliest_min * 100)
  IN t + tm[pos][pos + 1]

OnWalk(event, size) ==
  /\ Get(event, "from_idx", 0) \in 0..(size - 2)
  /\ Get(event, "to_idx", 0) = Get(event, "from_idx", 0) + 1

C20_EtasAreReferenceWalk ==
  /\ rr.pc = "done" =>
       /\ Len(rr.result.stops) = Len(rr.stops)
       /\ \A q \in 1..Len(rr.stops) :
            Abs(rr.result.stops[q].planned_arrival_min * 10
                  - RefArrival(rr_ref.delayed, rr.stops, q - 1)) <= 5
  /\ rr.pc = "events" =>
       \A event \in Events :
         ~OnWalk(event, Size(rr.time_matrix)) =>
           \/ ApplyOne(rr.time_matrix, event).raised
           \/ EtaWalk(ApplyOne(rr.time_matrix, event).tm, rr.stops, 0, T0, 0)
                = EtaWalk(rr.time_matrix, rr.stops, 0, T0, 0)

\* --------------------------------------------------------------------- C24
\* C24: in the routes _greedy returns, the stop at every position is, among
\* the stops unassigned at that moment that fit the remaining capacity and
\* can be reached by their latest_min, one nearest to the current position,
\* and of equally near ones the first in input order; the routes follow the
\* input order of their vehicles, none is empty, and there are at most as
\* many as vehicles.
Before(rs, a, p) ==
  UNION {Range(rs[b].stops) : b \in 1..(a - 1)} \cup {rs[a].stops[q] : q \in 1..(p - 1)}

From(stop_indices, p) == IF p = 1 THEN depot_idx ELSE stops[stop_indices[p - 1]].idx

Takeable(vehicle, prefix, s) ==
  /\ SumWeights(prefix, 1) + stops[s].weight <= vehicle.capacity_kg
  /\ Departure(prefix, Len(prefix), start_min)
       + time_m[From(prefix, Len(prefix) + 1)][stops[s].idx] <= stops[s].latest_min

Candidates(rs, a, p) ==
  {s \in (0..(n - 1)) \ Before(rs, a, p) :
     Takeable(rs[a].vehicle, SubSeq(rs[a].stops, 1, p - 1), s)}

NearestFirst(rs, a, p) ==
  LET c == rs[a].stops[p]
      from == From(rs[a].stops, p)
  IN /\ c \in Candidates(rs, a, p)
     /\ \A s \in Candidates(rs, a, p) :
          \/ dist[from][stops[c].idx] < dist[from][stops[s].idx]
          \/ dist[from][stops[c].idx] = dist[from][stops[s].idx] /\ c <= s

VehicleNo(vehicle) == CHOOSE k \in 1..Len(vehicles) : vehicles[k] = vehicle

C24_GreedyTakesNearestFeasible ==
  Returned("greedy") =>
    /\ \A a \in 1..Len(result) : \A p \in 1..Len(result[a].stops) : NearestFirst(result, a, p)
    /\ \A a \in 1..Len(result) : result[a].stops # <<>>
    /\ \A a \in 1..Len(result) : \E k \in 1..Len(vehicles) : vehicles[k] = result[a].vehicle
    /\ \A a, b \in 1..Len(result) :
         a < b => VehicleNo(result[a].vehicle) < VehicleNo(result[b].vehicle)
    /\ Len(result) <= Len(vehicles)

\* _greedy has returned after a step with two equally near candidates, and
\* with a vehicle that got no route.
C24_Witness ==
  /\ Returned("greedy")
  /\ Len(result) < Len(vehicles)
  /\ \E a \in 1..Len(result) : \E p \in 1..Len(result[a].stops) :
       \E s \in Candidates(result, a, p) \ {result[a].stops[p]} :
         dist[From(result[a].stops, p)][stops[s].idx]
           = dist[From(result[a].stops, p)][stops[result[a].stops[p]].idx]

\* --------------------------------------------------------------------- C27
\* C27: when _greedy returns, no vehicle of the input could take a stop that
\* is left unassigned as its next stop: after the last stop of the
\* vehicle's route, or from the depot when the vehicle has no route, the
\* stop would exceed the capacity or be reached after its latest_min.
RouteOfVehicle(rs, vk) ==
  IF \E a \in 1..Len(rs) : rs[a].vehicle = vehicles[vk]
  THEN rs[CHOOSE a \in 1..Len(rs) : rs[a].vehicle = vehicles[vk]].stops
  ELSE <<>>

LeftOut(rs) == (0..(n - 1)) \ StopsOf(rs)

C27_UnassignedFitsNowhere ==
  Returned("greedy") =>
    \A s \in LeftOut(result) : \A vk \in 1..Len(vehicles) :
      ~Takeable(vehicles[vk], RouteOfVehicle(result, vk), s)

\* A stop is left out that is light enough for a vehicle and too late for
\* it, and one vehicle of two has no route.
C27_Witness ==
  /\ Returned("greedy")
  /\ Len(vehicles) = 2
  /\ Len(result) = 1
  /\ \E s \in LeftOut(result) : \E vk \in 1..Len(vehicles) :
       SumWeights(RouteOfVehicle(result, vk), 1) + stops[s].weight <= vehicles[vk].capacity_kg

\* --------------------------------------------------------------------- C26
\* C26: when every stop has earliest_min <= latest_min, _feasible on an
\* ordering and a vehicle returns True exactly when validate_route on the
\* same stops, the vehicle's capacity, the same time matrix and the solver's
\* dispatch time returns valid.
WindowsOpen == \A s \in DOMAIN stops : stops[s].earliest_min <= stops[s].latest_min

OrderingOf(sl) == [k \in 1..Len(sl) |-> StopIndexOf(sl[k].id)]

C26_FeasibleAgreesWithChecker ==
  (vr_ret # <<>> /\ vr_args.start_time_min = start_min /\ WindowsOpen) =>
    (feasible(OrderingOf(vr_args.stops_list),
              [id |-> 0, capacity_kg |-> vr_args.vehicle_capacity]) <=> vr_ret[1])

\* Both accept an ordering of three stops on which the vehicle waits, with
\* the load equal to the capacity.
C26_Witness ==
  /\ vr_ret # <<>> /\ vr_args.start_time_min = start_min /\ WindowsOpen
  /\ vr_ret[1]
  /\ Len(vr_args.stops_list) = 3
  /\ SumList([k \in 1..3 |-> vr_args.stops_list[k].weight], 1) = vr_args.vehicle_capacity
  /\ \E k \in 1..3 : vr_ret[2][k] < vr_args.stops_list[k].earliest_min

\* --------------------------------------------------------------------- C25
\* The ETAs of a reroute of the same route with no events.
Baseline == EtaWalk(rr_ref.base, rr.stops, 0, T0, 0)

NotEarlier ==
  \A q \in 1..Len(rr.stops) :
    rr.result.stops[q].planned_arrival_min >= Baseline[q].planned_arrival_min

Edge01Delayed == rr_ref.hit01 /\ rr_ref.base[0][1] > 0

\* C25 as stated: with every delay_factor >= 1 no reported ETA is earlier
\* than the baseline's, and when an event delays the edge 0 -> 1 by a factor
\* > 1 and the edge has positive travel time the ETA reported at position 0
\* is strictly later than the baseline's.
C25_StrictlyLaterAsReported ==
  (rr.pc = "done" /\ rr_ref.slow_only) =>
    /\ NotEarlier
    /\ Edge01Delayed =>
         rr.result.stops[1].planned_arrival_min > Baseline[1].planned_arrival_min

\* C25, amended: with every delay_factor >= 1 no reported ETA is earlier
\* than the baseline's; when an event delays the edge 0 -> 1 by a factor > 1
\* and the edge has positive travel time, the arrival at position 0 before
\* rounding is strictly later than the baseline's, and the reported ETA,
\* which is rounded to one decimal, is strictly later when the arrival has
\* moved by 0.1 minute or more.
C25_LaterBeforeRounding ==
  (rr.pc = "done" /\ rr_ref.slow_only) =>
    /\ NotEarlier
    /\ Edge01Delayed =>
         /\ RefArrival(rr.time_matrix, rr.stops, 0) > RefArrival(rr_ref.base, rr.stops, 0)
         /\ RefArrival(rr.time_matrix, rr.stops, 0)
              >= RefArrival(rr_ref.base, rr.stops, 0) + 10 =>
                rr.result.stops[1].planned_arrival_min > Baseline[1].planned_arrival_min

\* A delay of the edge 0 -> 1 that the rounding hides, on a route where a
\* later stop is reached later than in the baseline.
C25_Witness ==
  /\ rr.pc = "done" /\ rr_ref.slow_only /\ Edge01Delayed
  /\ rr.result.stops[1].planned_arrival_min = Baseline[1].planned_arrival_min
  /\ Len(rr.stops) = 2
  /\ rr.result.stops[2].planned_arrival_min > Baseline[2].planned_arrival_min

\* --------------------------------------------------------------------- C23
\* What the claim counts as a failure of the primary's call.
ProviderFailures == ProviderRaises \ {"CancelledError"}

FallbackBound ==
  /\ mx.dist_matrix = haversine_matrix(mx.coords).distance
  /\ mx.time_matrix = haversine_matrix(mx.coords).time

\* C23: in the job and in reroute alike, the primary provider is called
\* exactly when a key is configured and at most once per build; when its
\* call fails the build ends with the fallback's matrices and nothing is
\* raised to the operation; with no key the fallback is used and the
\* primary is never called.
C23_PrimaryOnlyWithKeyFallbackOnFailure ==
  /\ mx.primary_calls <= 1
  /\ mx.primary_calls = 1 => mx.ors_api_key # ""
  /\ mx.pc \in {"awaiting", "raising", "built", "failed"} =>
       (mx.primary_calls = 1 <=> mx.ors_api_key # "")
  /\ (mx.exc # NoException /\ mx.exc.class \in ProviderFailures) => mx.pc # "failed"
  /\ (mx.pc = "built" /\ mx.exc # NoException) => FallbackBound /\ mx.warnings = 1
  /\ (mx.pc = "built" /\ mx.ors_api_key = "") => FallbackBound /\ mx.primary_calls = 0

\* reroute_active with a key, the provider answering with a body that is
\* not JSON, on coordinates whose road matrix differs from the fallback's.
C23_Witness ==
  /\ mx.pc = "built"
  /\ mx.caller = "reroute_active"
  /\ mx.ors_api_key # ""
  /\ mx.exc # NoException
  /\ mx.exc.class = "JSONDecodeError"
  /\ mx.primary_calls = 1
  /\ FallbackBound
  /\ mx.dist_matrix[0][1] > 0

\* --------------------------------------------------------------------- C21
\* The frames written to the sockets by the reroute's broadcast.
PushedFrames ==
  {[ws |-> log[k].ws, frame |-> BroadcastMessage(rr.result)] :
     k \in {q \in 1..Len(log) : log[q].b = 1 /\ log[q].ok}}

\* C21: every frame pushed to a subscriber by a reroute equals the payload
\* {route_id, rerouted, stops} the reroute returns to its HTTP caller, and
\* it is pushed only after the ETAs have been recomputed.
C21_FrameEqualsReturnedPayload ==
  \A f \in PushedFrames :
    /\ rr.pc = "done"
    /\ f.frame = rr.result
    /\ (api.pc = "responded" => f.frame = api.response.body)

\* Part of C21 that the code keeps: a frame is pushed only after the ETAs
\* have been recomputed, and it carries the returned payload under "route".
C21_FrameCarriesPayloadAfterRecompute ==
  \A f \in PushedFrames :
    /\ rr.pc = "done"
    /\ f.frame.route = rr.result
    /\ (api.pc = "responded" => f.frame.route = api.response.body)

\* --------------------------------------------------------------------- C22
Persisted(route_id) == route_id \in {r.id : r \in store.routes}

\* C22: a stops read, a detail read or a reroute of a route id that has no
\* persisted route ends in 404 and in no other error, and a reroute of an
\* unknown route broadcasts nothing.
C22_UnknownRouteIsNotFound ==
  (api.pc # "idle" /\ ~Persisted(api.route_id)) =>
    /\ api.pc = "responded" => api.response.status = 404
    /\ \A k \in 1..Len(log) : log[k].b # 1

\* Part of C22 that the code keeps: the two reads answer 404, and a reroute
\* of an unknown route broadcasts nothing.
C22_UnknownRouteReadsNotFoundNoBroadcast ==
  (api.pc # "idle" /\ ~Persisted(api.route_id)) =>
    /\ (api.pc = "responded" /\ api.op # "reroute") => api.response = NotFound
    /\ \A k \in 1..Len(log) : log[k].b # 1

====
